---- MODULE Spec2Model ----
(***************************************************************************)
(* Query understanding and pipeline synthesis of the Demand-Genius         *)
(* services: the pipeline builders (pipeline_builder.py,                   *)
(* try_query_builder.py, retrieval_service.py, pipeline_executor.py), the  *)
(* post-processing that prepares their input (try_query_parser.py), the    *)
(* rule-based parser and classifier (category_extracter.py) and the tenant *)
(* schema caches (database_schema.py, category_extracter.py).              *)
(*                                                                         *)
(* Python dicts are functions with a finite domain of strings; they are    *)
(* iterated in the fixed order KeyOrder.  Lists are sequences.             *)
(***************************************************************************)
EXTENDS Integers, Sequences, FiniteSets, TLC

VARIABLES
    parsed,      \* plan path: the parser output held by the caller (test.py), or NoParse
    planTenant,  \* plan path: the tenant id the last builder call was given
    planVia,     \* plan path: which builder produced `pipeline`
    pipeline,    \* plan path: the stage list the last builder call returned
    planErr,     \* plan path: the exception the last builder call raised, or "none"
    sent,        \* plan path: the stage list last handed to collection.aggregate
    sentVia      \* plan path: which caller handed `sent` to the store

planVars == <<parsed, planTenant, planVia, pipeline, planErr, sent, sentVia>>

VARIABLES
    schemaCache,          \* DynamicTenantSchemaExtractor._schema_cache
    lruMemo,              \* the memo functools.lru_cache keeps for get_cached_schema
    tenantCategoryCache,  \* category_extracter.TENANT_CATEGORY_CACHE
    storeVer,             \* the content version of each tenant's taxonomy in the store
    storeUp,              \* whether reads of the store succeed
    worker,               \* each caller's call in progress and its local variables
    returned,             \* what the last call to finish handed to its caller
    firstResolved,        \* per tenant, the vocabulary of the first resolve since a clear
    calls                 \* the number of calls begun

cacheVars == <<schemaCache, lruMemo, tenantCategoryCache, storeVer, storeUp, worker,
               returned, firstResolved, calls>>

VARIABLES
    userQuery,  \* parse path: the text of the user query in hand
    vocab,      \* parse path: the tenant vocabulary the parsers were loaded with
    parseVia,   \* parse path: "none", "submitted", the parser that answered, or "raised"
    parseOut,   \* parse path: the classification and filters that parser returned
    llm,        \* parse path: whether the parse called the model, and what came back
    parseErr    \* parse path: the parser that raised and its exception, if one did

parseVars == <<userQuery, vocab, parseVia, parseOut, llm, parseErr>>

VARIABLES
    temporalText,  \* temporal path: the query text handed to the TemporalParser
    temporalOut    \* temporal path: what parse_temporal_constraints did with it

temporalVars == <<temporalText, temporalOut>>

VARIABLES
    advisoryData,  \* advisory path: the parsed data and the handler's tenant context
    advisoryOut    \* advisory path: the query counted and the advisory returned

advisoryVars == <<advisoryData, advisoryOut>>

VARIABLES
    rawFilters,    \* normalisation: the filters object an extractor supplied
    normalized     \* normalisation: what normalize_filters made of it, once and twice

normalizeVars == <<rawFilters, normalized>>

nonPlanVars == <<cacheVars, parseVars, temporalVars, advisoryVars, normalizeVars>>
nonCacheVars == <<planVars, parseVars, temporalVars, advisoryVars, normalizeVars>>
nonParseVars == <<planVars, cacheVars, temporalVars, advisoryVars, normalizeVars>>
nonTemporalVars == <<planVars, cacheVars, parseVars, advisoryVars, normalizeVars>>
nonAdvisoryVars == <<planVars, cacheVars, parseVars, temporalVars, normalizeVars>>
nonNormalizeVars == <<planVars, cacheVars, parseVars, temporalVars, advisoryVars>>

----------------------------------------------------------------------------
(* Dicts and lists *)

EmptyDict == [k \in {} |-> <<>>]

\* d[k] = v
DictSet(d, k, v) == (k :> v) @@ d

\* d.get(k, default)
DictGet(d, k, default) == IF k \in DOMAIN d THEN d[k] ELSE default

\* {**a, **b} and a.update(b): b wins on a shared key
DictUpdate(a, b) == b @@ a

\* the order in which the model iterates the keys of a dict
KeyOrder ==
    << "Funnel Stage", "Primary Audience", "Secondary Audience", "Industry",
       "Page Type", "Language", "Tags", "Title", "URL",
       "categoryAttribute", "contentType", "geoFocus" >>

Keys(d) == SelectSeq(KeyOrder, LAMBDA k : k \in DOMAIN d)

SeqContains(s, x) == \E i \in 1..Len(s) : s[i] = x

SeqRange(s) == {s[i] : i \in 1..Len(s)}

\* x appended unless present: "if x not in lst: lst.append(x)"
AppendNew(s, x) == IF SeqContains(s, x) THEN s ELSE Append(s, x)

RECURSIVE Flatten(_)
Flatten(ss) == IF ss = <<>> THEN <<>> ELSE Head(ss) \o Flatten(Tail(ss))

----------------------------------------------------------------------------
(* bson.ObjectId *)

\* the 24-digit hex strings ObjectId() accepts
ValidHex == {"6875f3afc8337606d54a7f37", "6875f3afc8337606d54a7f38"}

TenantIds == ValidHex \cup {"not-hex"}

ObjectIdRaises(s) == s \notin ValidHex

ObjectId(s) == [oid |-> s]

----------------------------------------------------------------------------
(* Stages and conditions of an aggregation pipeline *)

OidCond(t) == [kind |-> "eq_oid", vals |-> <<t>>]
EqCond(v) == [kind |-> "eq", vals |-> <<v>>]
InCond(vs) == [kind |-> "$in", vals |-> vs]
ExprInLocalIds == [kind |-> "$expr_in", vals |-> <<"$_id", "$$local_ids">>]

MatchStage(cond) == [op |-> "$match", cond |-> cond]
LookupStage(from, localPath, m, as) ==
    [op |-> "$lookup", from |-> from, let |-> localPath, match |-> m, as |-> as]
UnwindStage(path) ==
    [op |-> "$unwind", path |-> path, preserveNullAndEmptyArrays |-> FALSE]
GroupStage(id) == [op |-> "$group", id |-> id, acc |-> "count_sum_1"]
SortStage == [op |-> "$sort", by |-> "count", dir |-> -1]
LimitStage(n) == [op |-> "$limit", n |-> n]
CountStage(name) == [op |-> "$count", name |-> name]
ProjectStage == [op |-> "$project",
                 fields |-> <<"title", "url", "funnel_stage", "industry", "content_type">>]

----------------------------------------------------------------------------
(* JSON values an extractor may put in a filter slot *)

JNone == [t |-> "none", l |-> <<>>]
JList(l) == [t |-> "list", l |-> l]

\* Python truthiness of such a value
JStr(s) == [t |-> "str", l |-> s]

Truthy(v) == v.t = "list" /\ Len(v.l) > 0

\* bool(vals) for any slot: None, [] and "" are false
SlotTruthy(vals) == vals.t # "none" /\ vals.l # <<>>

\* normalize_filters of query_parser_working.py and try_query_parser.py:
\* {cat: (vals or []) for cat, vals in filters.items()}, {} for no filters
NormalizeFiltersOr(filters) ==
    [cat \in DOMAIN filters |->
        IF SlotTruthy(filters[cat]) THEN filters[cat] ELSE JList(<<>>)]

\* normalize_filters of query_parser.py: None gives [], a list stays, anything else
\* is wrapped in a list when truthy
NormalizeFiltersWrap(filters) ==
    [cat \in DOMAIN filters |->
        IF filters[cat].t = "none" THEN JList(<<>>)
        ELSE IF filters[cat].t = "list" THEN filters[cat]
        ELSE IF SlotTruthy(filters[cat]) THEN JList(<<filters[cat].l>>)
        ELSE JList(<<>>)]

----------------------------------------------------------------------------
(* try_query_parser.py: the post-processing that prepares the builders' input *)

\* get_database_field_mapping()
FieldMappingTable ==
    [c \in {"Funnel Stage", "Primary Audience", "Secondary Audience", "Industry"} |->
        [collection |-> "category_attributes", field_path |-> "categoryAttribute",
         lookup_field |-> "name", requires_join |-> TRUE]]
    @@ ("Page Type" :>
        [collection |-> "sitemaps", field_path |-> "contentType",
         lookup_field |-> "name", requires_join |-> TRUE])
    @@ ("Language" :>
        [collection |-> "sitemaps", field_path |-> "geoFocus",
         lookup_field |-> "None", requires_join |-> FALSE])

\* normalize_filters: {cat: (vals or [])}, here for list-or-None slots
NormalizeFiltersTry(filters) ==
    [c \in DOMAIN filters |-> IF Truthy(filters[c]) THEN filters[c].l ELSE <<>>]

\* one (category, value) pair merged into the filters:
\* "if value not in filters.get(cat, []): filters.setdefault(cat, []).append(value)"
MergeValue(filters, cat, value) ==
    DictSet(filters, cat, AppendNew(DictGet(filters, cat, <<>>), value))

RECURSIVE MergeValues(_, _, _)
MergeValues(filters, cat, values) ==
    IF values = <<>> THEN filters
    ELSE MergeValues(MergeValue(filters, cat, Head(values)), cat, Tail(values))

\* step 2: every quoted entity that is (case-sensitively) one of a category's values
RECURSIVE MergeQuotedCats(_, _, _, _)
MergeQuotedCats(filters, entity, categories, cats) ==
    IF cats = <<>> THEN filters
    ELSE LET cat == Head(cats)
             f == IF SeqContains(categories[cat], entity)
                  THEN MergeValue(filters, cat, entity) ELSE filters
         IN MergeQuotedCats(f, entity, categories, Tail(cats))

RECURSIVE MergeQuoted(_, _, _)
MergeQuoted(filters, entities, categories) ==
    IF entities = <<>> THEN filters
    ELSE MergeQuoted(MergeQuotedCats(filters, Head(entities), categories, Keys(categories)),
                     Tail(entities), categories)

\* step 3: the matches of intelligent_fuzzy_matching, a dict category -> values
RECURSIVE MergeFuzzy(_, _, _)
MergeFuzzy(filters, fuzzy, cats) ==
    IF cats = <<>> THEN filters
    ELSE MergeFuzzy(MergeValues(filters, Head(cats), fuzzy[Head(cats)]), fuzzy, Tail(cats))

JoinEntry(category, values) ==
    LET m == FieldMappingTable[category]
    IN [collection |-> m.collection, field |-> m.field_path,
        lookup_field |-> m.lookup_field, values |-> values, category |-> category]

\* step 4: a filter whose category the field mapping does not know adds nothing
RECURSIVE FilterJoins(_, _)
FilterJoins(filters, cats) ==
    IF cats = <<>> THEN <<>>
    ELSE LET c == Head(cats)
             here == IF Len(filters[c]) > 0 /\ c \in DOMAIN FieldMappingTable
                        /\ FieldMappingTable[c].requires_join
                     THEN <<JoinEntry(c, filters[c])>> ELSE <<>>
         IN here \o FilterJoins(filters, Tail(cats))

RECURSIVE FilterDirectFields(_, _, _)
FilterDirectFields(acc, filters, cats) ==
    IF cats = <<>> THEN acc
    ELSE LET c == Head(cats)
             next == IF Len(filters[c]) > 0 /\ c \in DOMAIN FieldMappingTable
                        /\ ~FieldMappingTable[c].requires_join
                     THEN DictSet(acc, FieldMappingTable[c].field_path, filters[c])
                     ELSE acc
         IN FilterDirectFields(next, filters, Tail(cats))

\* step 5: the categories named in the query become aggregation fields, each with a
\* join of its own (no values) unless a filter already joined it
RECURSIVE AggregationJoins(_, _, _)
AggregationJoins(joins, mentioned, cats) ==
    IF cats = <<>> THEN joins
    ELSE LET c == Head(cats)
             need == /\ c \in mentioned
                     /\ c \in DOMAIN FieldMappingTable
                     /\ FieldMappingTable[c].requires_join
                     /\ ~\E i \in 1..Len(joins) : joins[i].category = c
         IN AggregationJoins(IF need THEN Append(joins, JoinEntry(c, <<>>)) ELSE joins,
                             mentioned, Tail(cats))

IsAggQuery(parsed_data) ==
    parsed_data.aggregation_requested
        \/ parsed_data.operation_type \in {"aggregate", "count", "rank"}

\* enhanced_post_processing(parsed_data, categories); `fuzzy` is what
\* intelligent_fuzzy_matching returned and `mentioned` the categories whose name
\* scores partial_ratio >= 80 against the query
EnhancedPostProcessing(parsed_data, categories, fuzzy, mentioned) ==
    LET f1 == NormalizeFiltersTry(parsed_data.filters)
        f2 == MergeQuoted(f1, parsed_data.quoted_entities, categories)
        filters == MergeFuzzy(f2, fuzzy, Keys(fuzzy))
        joins == FilterJoins(filters, Keys(filters))
        agg == IsAggQuery(parsed_data)
    IN [filters |-> filters,
        database_mapping |->
            [required_joins |->
                IF agg THEN AggregationJoins(joins, mentioned, Keys(categories)) ELSE joins,
             direct_fields |-> FilterDirectFields(EmptyDict, filters, Keys(filters)),
             aggregation_fields |->
                IF agg THEN SelectSeq(Keys(categories), LAMBDA c : c \in mentioned)
                ELSE <<>>],
        aggregation_requested |-> parsed_data.aggregation_requested,
        operation_type |-> parsed_data.operation_type]

----------------------------------------------------------------------------
(* pipeline_builder.py: build_structured_pipeline(parsed_query, tenant_id) *)

\* lines 19-26: the $match inside a category_attributes lookup
OldLookupMatch(join, aggregation_requested, tenant_id) ==
    LET lookup_match == ("$expr" :> ExprInLocalIds) @@ ("tenant" :> OidCond(tenant_id))
    IN IF Len(join.values) > 0 /\ ~aggregation_requested
       THEN DictSet(lookup_match, join.lookup_field, InCond(join.values))
       ELSE lookup_match

\* lines 16-42: a join on another collection adds no stage
OldJoinStages(join, aggregation_requested, tenant_id) ==
    IF join.collection = "category_attributes"
    THEN << LookupStage("category_attributes", "$categoryAttribute",
                        OldLookupMatch(join, aggregation_requested, tenant_id),
                        "categoryAttributeDetails"),
            UnwindStage("$categoryAttributeDetails") >>
    ELSE <<>>

\* lines 45-52: one $match over the direct fields with a non-empty value list
OldDirectStages(direct_fields) ==
    IF DOMAIN direct_fields # {}
    THEN << MatchStage([f \in {g \in DOMAIN direct_fields : Len(direct_fields[g]) > 0} |->
                            InCond(direct_fields[f])]) >>
    ELSE <<>>

\* lines 56-69: group, sort and limit, once per aggregation field
OldAggregationStages(agg_field, joins) ==
    LET group_field ==
            IF \E i \in 1..Len(joins) : joins[i].category = agg_field
            THEN "$categoryAttributeDetails." \o agg_field
            ELSE "$" \o agg_field
    IN << GroupStage([kind |-> "path", fields |-> <<group_field>>]),
          SortStage, LimitStage(1) >>

OldBuildPipeline(parsed_query, tenant_id) ==
    LET dm == parsed_query.database_mapping
        joins == dm.required_joins
        agg == parsed_query.aggregation_requested
    IN << MatchStage("tenant" :> OidCond(tenant_id)) >>
       \o Flatten([i \in 1..Len(joins) |-> OldJoinStages(joins[i], agg, tenant_id)])
       \o OldDirectStages(dm.direct_fields)
       \o (IF agg
           THEN Flatten([i \in 1..Len(dm.aggregation_fields) |->
                            OldAggregationStages(dm.aggregation_fields[i], joins)])
           ELSE <<>>)

----------------------------------------------------------------------------
(* try_query_builder.py *)

FILTER_MAPPING ==
    [c \in {"Funnel Stage", "Industry", "Primary Audience", "Secondary Audience"} |->
        "category"]
    @@ [c \in {"Page Type", "Language", "Title", "URL"} |-> "direct"]

\* get_category_id.py declares get_category_id(self, category_name); the call at
\* try_query_builder.py:57 passes (tenant_oid, category_name), so the call raises
\* TypeError, which lines 60-63 swallow
CategoryIndexLookup(tenant_oid, category_name) == [raised |-> TRUE, id |-> "none"]

\* lines 54-63
CategoryMatch(join, tenant_id) ==
    LET r == CategoryIndexLookup(ObjectId(tenant_id), join.category)
    IN IF ~r.raised /\ r.id # "none" THEN ("category" :> OidCond(r.id)) ELSE EmptyDict

\* lines 66-68
ValueMatch(join) ==
    IF Len(join.values) > 0 THEN (join.lookup_field :> InCond(join.values)) ELSE EmptyDict

\* NewLookupMatch with the tenant condition left out of the inner $match
NewLookupMatchUnscoped(join, tenant_id) ==
    DictUpdate(DictUpdate(("$expr" :> ExprInLocalIds), CategoryMatch(join, tenant_id)),
               ValueMatch(join))

\* lines 81-86: {"$expr": ..., "tenant": tenant_oid, **category_match, **value_match}
NewLookupMatch(join, tenant_id) ==
    DictUpdate(DictUpdate(("$expr" :> ExprInLocalIds) @@ ("tenant" :> OidCond(tenant_id)),
                          CategoryMatch(join, tenant_id)),
               ValueMatch(join))

\* lines 41-102, one join; as_field is "<local_field>Details"
NewJoinStages(join, tenant_id) ==
    IF join.collection = "" \/ join.field = ""
    THEN <<>>
    ELSE << LookupStage(join.collection, "$" \o join.field,
                        NewLookupMatch(join, tenant_id), join.field \o "Details"),
            UnwindStage("$" \o join.field \o "Details") >>

\* build_category_lookups
BuildCategoryLookups(required_joins, tenant_id) ==
    Flatten([i \in 1..Len(required_joins) |-> NewJoinStages(required_joins[i], tenant_id)])

\* lines 197-205: the filters FILTER_MAPPING calls "direct"; a filter it does not
\* know, or calls "category", is left out
DirectFilters(filters) ==
    [c \in {d \in DOMAIN filters :
                /\ Len(filters[d]) > 0
                /\ d \in DOMAIN FILTER_MAPPING
                /\ FILTER_MAPPING[d] = "direct"} |-> filters[c]]

\* apply_direct_field_filters
ApplyDirectFieldFilters(filters) ==
    LET match_conditions ==
            [f \in {g \in DOMAIN filters : Len(filters[g]) > 0} |-> InCond(filters[f])]
    IN IF DOMAIN match_conditions # {} THEN <<MatchStage(match_conditions)>> ELSE <<>>

\* apply_aggregation: the stages appended to the pipeline
ApplyAggregation(parser_output) ==
    LET operation_type == parser_output.operation_type
        agg_fields == parser_output.database_mapping.aggregation_fields
    IN IF ~parser_output.aggregation_requested
          /\ operation_type \notin {"aggregate", "count", "rank"}
       THEN <<>>
       ELSE IF operation_type = "count"
       THEN <<CountStage("total_results")>>
       ELSE IF operation_type \in {"aggregate", "rank"}
       THEN IF agg_fields = <<>>
            THEN <<CountStage("total_results")>>
            ELSE << GroupStage(
                        [kind |-> IF Len(agg_fields) = 1 THEN "path" ELSE "document",
                         fields |-> [i \in 1..Len(agg_fields) |->
                                        "$categoryAttributeDetails." \o agg_fields[i]]]),
                    SortStage >>
                 \o (IF operation_type = "rank" THEN <<LimitStage(1)>> ELSE <<>>)
       ELSE <<>>

\* build_structured_pipeline(parser_output, tenant_id, extractor)
NewBuildPipeline(parser_output, tenant_id) ==
    << MatchStage("tenant" :> OidCond(tenant_id)) >>
    \o BuildCategoryLookups(parser_output.database_mapping.required_joins, tenant_id)
    \o ApplyDirectFieldFilters(DirectFilters(parser_output.filters))
    \o ApplyAggregation(parser_output)

----------------------------------------------------------------------------
(* retrieval_service.py and pipeline_executor.py: what reaches the store *)

\* build_structured_match
BuildStructuredMatch(filters) ==
    MatchStage([c \in {d \in DOMAIN filters : Len(filters[d]) > 0} |->
                    IF Len(filters[c]) = 1 THEN EqCond(filters[c][1])
                    ELSE InCond(filters[c])])

\* structured_search: the pipeline given to collection.aggregate
StructuredSearchPipeline(filters, limit) ==
    << BuildStructuredMatch(filters), ProjectStage, LimitStage(limit) >>

\* execute_pipeline_count: the pipeline given to collection.aggregate
ExecutePipelineCount(p) == p \o <<CountStage("count")>>

----------------------------------------------------------------------------
(* The plan path: test.py (parse, build, execute) and run_flow.py (parse, search) *)

\* tenant_categories of try_query_parser.py, as extract_categorical_fields() gave it
PlanVocabulary ==
    ("Funnel Stage" :> <<"TOFU", "MOFU">>)
    @@ ("Page Type" :> <<"Blog">>)
    @@ ("Language" :> <<"English", "German">>)
    @@ ("Tags" :> <<"AI Tools">>)

\* what the tool call may put in one filter slot: None, or a list of allowed values
LlmSlots(c) ==
    {JNone} \cup {JList(SubSeq(PlanVocabulary[c], 1, n)) : n \in 0..Len(PlanVocabulary[c])}

LlmFilters == {f \in [DOMAIN PlanVocabulary -> UNION {LlmSlots(c) : c \in DOMAIN PlanVocabulary}] :
                  \A c \in DOMAIN PlanVocabulary : f[c] \in LlmSlots(c)}

QuotedChoices == {<<>>, <<"AI Tools">>, <<"Blog">>}

FuzzyChoices == {EmptyDict, ("Funnel Stage" :> <<"MOFU">>), ("Tags" :> <<"AI Tools">>)}

MentionChoices == {{}, {"Funnel Stage"}, {"Language"}, {"Funnel Stage", "Page Type"}, {"Tags"}}

OperationTypes == {"list", "aggregate", "count", "rank"}

PlanIdle ==
    /\ parsed = <<>>
    /\ planTenant = "none"
    /\ planVia = "none"
    /\ pipeline = <<>>
    /\ planErr = "none"
    /\ sent = <<>>
    /\ sentVia = "none"

\* test.py:12: parse_query_with_enhanced_tools(user_query)
ParseQuery ==
    /\ parsed = <<>>
    /\ \E filters \in LlmFilters, quoted \in QuotedChoices, fuzzy \in FuzzyChoices,
          mentioned \in MentionChoices, agg \in BOOLEAN, op \in OperationTypes :
            parsed' = << EnhancedPostProcessing(
                            [filters |-> filters, quoted_entities |-> quoted,
                             aggregation_requested |-> agg, operation_type |-> op],
                            PlanVocabulary, fuzzy, mentioned) >>
    /\ UNCHANGED <<planTenant, planVia, pipeline, planErr, sent, sentVia>>
    /\ UNCHANGED nonPlanVars

\* a key of a dict that may be absent: <<>> for absent, <<v>> for present with value v
Opt(k, o) == IF o = <<>> THEN EmptyDict ELSE (k :> o[1])

\* what the builders read of their argument, absent keys replaced by the defaults of
\* their .get calls: {} for filters and database_mapping, [] for the lists, None
\* (falsy) for aggregation_requested and operation_type
ParserOutputOf(given) ==
    LET dm == DictGet(given, "database_mapping", EmptyDict)
    IN [filters |-> DictGet(given, "filters", EmptyDict),
        database_mapping |->
            [required_joins |-> DictGet(dm, "required_joins", <<>>),
             direct_fields |-> DictGet(dm, "direct_fields", EmptyDict),
             aggregation_fields |-> DictGet(dm, "aggregation_fields", <<>>)],
        aggregation_requested |-> DictGet(given, "aggregation_requested", FALSE),
        operation_type |-> DictGet(given, "operation_type", "None")]

\* parser outputs with absent and empty parts, given to the builders directly
GivenFilters ==
    {<<>>, <<EmptyDict>>, <<("Language" :> <<>>)>>, <<("Language" :> <<"English">>)>>}

GivenDatabaseMappings ==
    {<<>>, <<EmptyDict>>,
     <<("direct_fields" :> EmptyDict)>>,
     <<("direct_fields" :> ("geoFocus" :> <<>>))>>,
     <<("required_joins" :> <<>>) @@ ("direct_fields" :> ("geoFocus" :> <<>>))
        @@ ("aggregation_fields" :> <<>>)>>,
     <<("direct_fields" :> ("geoFocus" :> <<"English">>))>>,
     <<("required_joins" :> <<JoinEntry("Funnel Stage", <<"TOFU">>)>>)>>}

GivenParserOutputs ==
    {Opt("filters", f) @@ Opt("database_mapping", dm)
        @@ Opt("aggregation_requested", ar) @@ Opt("operation_type", op) :
        f \in GivenFilters, dm \in GivenDatabaseMappings,
        ar \in {<<>>, <<FALSE>>, <<TRUE>>},
        op \in {<<>>, <<"list">>, <<"count">>, <<"aggregate">>}}

\* a caller holds a parser output of its own making
GiveParserOutput ==
    /\ parsed = <<>>
    /\ \E given \in GivenParserOutputs : parsed' = <<ParserOutputOf(given)>>
    /\ UNCHANGED <<planTenant, planVia, pipeline, planErr, sent, sentVia>>
    /\ UNCHANGED nonPlanVars

\* test.py:17: pipeline_builder.build_structured_pipeline(parsed_query, tenant_id)
BuildOld(tenant_id) ==
    /\ parsed # <<>>
    /\ planVia = "none"
    /\ sentVia = "none"
    /\ planVia' = "pipeline_builder"
    /\ planTenant' = tenant_id
    /\ IF ObjectIdRaises(tenant_id)
       THEN planErr' = "InvalidId" /\ pipeline' = <<>>
       ELSE planErr' = "none" /\ pipeline' = OldBuildPipeline(parsed[1], tenant_id)
    /\ UNCHANGED <<parsed, sent, sentVia>>
    /\ UNCHANGED nonPlanVars

\* try_query_builder.build_structured_pipeline(parser_output, tenant_id, extractor)
BuildNew(tenant_id) ==
    /\ parsed # <<>>
    /\ planVia = "none"
    /\ sentVia = "none"
    /\ planVia' = "try_query_builder"
    /\ planTenant' = tenant_id
    /\ IF ObjectIdRaises(tenant_id)
       THEN planErr' = "InvalidId" /\ pipeline' = <<>>
       ELSE planErr' = "none" /\ pipeline' = NewBuildPipeline(parsed[1], tenant_id)
    /\ UNCHANGED <<parsed, sent, sentVia>>
    /\ UNCHANGED nonPlanVars

\* test.py:23: execute_pipeline_count(pipeline, tenant_id)
ExecuteCount ==
    /\ planVia # "none"
    /\ planErr = "none"
    /\ sentVia = "none"
    /\ sent' = ExecutePipelineCount(pipeline)
    /\ sentVia' = "execute_pipeline_count"
    /\ UNCHANGED <<parsed, planTenant, planVia, pipeline, planErr>>
    /\ UNCHANGED nonPlanVars

\* run_flow.py:25-26: structured_search(parsed["filters"], collection), reached when
\* the classification is "structured", which needs a filter with values
StructuredSearch ==
    /\ parsed # <<>>
    /\ planVia = "none"
    /\ sentVia = "none"
    /\ \E c \in DOMAIN parsed[1].filters : Len(parsed[1].filters[c]) > 0
    /\ sent' = StructuredSearchPipeline(parsed[1].filters, 10)
    /\ sentVia' = "structured_search"
    /\ UNCHANGED <<parsed, planTenant, planVia, pipeline, planErr>>
    /\ UNCHANGED nonPlanVars

\* the script ends; the next run starts afresh
PlanFinish ==
    /\ sentVia # "none" \/ planErr # "none"
    /\ parsed' = <<>>
    /\ planTenant' = "none"
    /\ planVia' = "none"
    /\ pipeline' = <<>>
    /\ planErr' = "none"
    /\ sent' = <<>>
    /\ sentVia' = "none"
    /\ UNCHANGED nonPlanVars

----------------------------------------------------------------------------
(* The taxonomy store: what the collections hold for each tenant *)

TenantA == "6875f3afc8337606d54a7f37"
TenantB == "6875f3afc8337606d54a7f38"

\* the content versions the store goes through, per tenant
StoreVersions(t) == IF t = TenantA THEN {1, 2} ELSE {1}

\* categories.find({"tenant": t}): the documents, names as stored
StoreCategoryDocs(t) ==
    IF t = TenantA
    THEN << [id |-> "c1", name |-> "Funnel Stage"], [id |-> "c2", name |-> " Tags "] >>
    ELSE << [id |-> "c3", name |-> "Language"], [id |-> "c4", name |-> "  "] >>

\* CategoryExtractor._load_categories: the tenant's category index, name -> _id
CategoryMap(t) ==
    [n \in {StoreCategoryDocs(t)[i].name : i \in 1..Len(StoreCategoryDocs(t))} |->
        (CHOOSE d \in SeqRange(StoreCategoryDocs(t)) : d.name = n).id]

\* category_attributes.find({"category": id}): the names, in version v of the store
StoreAttributeNames(id, v) ==
    CASE id = "c1" -> IF v = 1 THEN <<"TOFU", "MOFU">> ELSE <<"TOFU", "MOFU", "BOFU">>
      [] id = "c2" -> <<"AI Tools">>
      [] id = "c3" -> <<"French">>
      [] id = "c4" -> <<"Other">>
      [] OTHER -> <<>>

\* sitemaps.find_one({"tenant": t}): the categories whose attributes the sample
\* document references in categoryAttribute, and the fields it carries
StoreSampleSitemap(t) ==
    IF t = TenantA
    THEN [categoryAttribute |-> {"c1"}, fields |-> {"geoFocus"}]
    ELSE [categoryAttribute |-> {"c3"}, fields |-> {"geoFocus", "contentType"}]

\* the distinct values of a direct sitemap field
StoreUniqueFieldValues(field, t) ==
    IF field = "geoFocus"
    THEN IF t = TenantA THEN <<"English", "German">> ELSE <<"English">>
    ELSE <<>>

\* the names in a reference collection
StoreReferenceNames(collection, t) ==
    IF collection = "content_types" /\ t = TenantB THEN <<"Blog">> ELSE <<>>

\* str.strip() on the names the store holds
Strip(name) ==
    CASE name = " Tags " -> "Tags"
      [] name = "  " -> ""
      [] OTHER -> name

----------------------------------------------------------------------------
(* database_schema.py: DynamicTenantSchemaExtractor *)

\* _get_category_attributes: [] when the read fails
GetCategoryAttributes(id, v, up) ==
    IF up
    THEN SelectSeq([i \in 1..Len(StoreAttributeNames(id, v)) |->
                        Strip(StoreAttributeNames(id, v)[i])],
                   LAMBDA n : n # "")
    ELSE <<>>

\* _extract_tenant_categories, one turn of the loop over the category documents
ExtractCategoryStep(categories, doc, v, up) ==
    LET category_name == Strip(doc.name)
        attributes == GetCategoryAttributes(doc.id, v, up)
    IN IF category_name = "" \/ attributes = <<>>
       THEN categories
       ELSE DictSet(categories, category_name, attributes)

\* _determine_category_mapping: <<>> stands for None
DetermineCategoryMapping(category_name, sample, t, v) ==
    LET docs == SelectSeq(StoreCategoryDocs(t), LAMBDA d : d.name = category_name)
    IN IF docs = <<>> THEN <<>>
       ELSE IF StoreAttributeNames(docs[1].id, v) = <<>> THEN <<>>
       ELSE IF docs[1].id \in sample.categoryAttribute
       THEN << [category_name |-> category_name, source_collection |-> "sitemaps",
                field_path |-> "categoryAttribute", requires_join |-> TRUE,
                reference_collection |-> "category_attributes",
                filter_value |-> docs[1].id] >>
       ELSE <<>>

\* field_collection_map; "None" for a direct string field
FieldCollectionMap ==
    ("contentType" :> "content_types") @@ ("topic" :> "topics")
    @@ ("geoFocus" :> "None") @@ ("tag" :> "custom_tags")

\* _field_to_category_name
FieldToCategoryName(field_name) ==
    CASE field_name = "contentType" -> "Content Type"
      [] field_name = "topic" -> "Topic"
      [] field_name = "geoFocus" -> "Language"
      [] field_name = "tag" -> "Custom Tags"

\* _discover_direct_field_mappings: the fields that get a mapping
MappedDirectFields(sample, t) ==
    {f \in DOMAIN FieldCollectionMap \cap sample.fields :
        IF FieldCollectionMap[f] = "None"
        THEN StoreUniqueFieldValues(f, t) # <<>>
        ELSE StoreReferenceNames(FieldCollectionMap[f], t) # <<>>}

DirectFieldMapping(f) ==
    [category_name |-> FieldToCategoryName(f), source_collection |-> "sitemaps",
     field_path |-> f, requires_join |-> FieldCollectionMap[f] # "None",
     reference_collection |-> FieldCollectionMap[f], filter_value |-> "None"]

DiscoverDirectFieldMappings(sample, t) ==
    [n \in {FieldToCategoryName(f) : f \in MappedDirectFields(sample, t)} |->
        DirectFieldMapping(CHOOSE f \in MappedDirectFields(sample, t) :
                                FieldToCategoryName(f) = n)]

\* _discover_field_mappings: {} when a read fails
DiscoverFieldMappings(t, categories, v, up) ==
    IF ~up THEN EmptyDict
    ELSE LET sample == StoreSampleSitemap(t)
             mapped == {c \in DOMAIN categories :
                            DetermineCategoryMapping(c, sample, t, v) # <<>>}
             byCategory == [c \in mapped |-> DetermineCategoryMapping(c, sample, t, v)[1]]
         IN DictUpdate(byCategory, DiscoverDirectFieldMappings(sample, t))

\* TenantSchema(tenant_id, categories, field_mappings, collections_info); the
\* collections_info are the same known_collections in every schema
TenantSchema(t, categories, field_mappings) ==
    [tenant_id |-> t, categories |-> categories, field_mappings |-> field_mappings]

\* get_tenant_categories_for_ai, lines 315-332: the real categories and the virtual
\* ones, whose values are read from the store at every call
AiCategories(schema, t, up) ==
    LET virtual == {n \in DOMAIN schema.field_mappings : n \notin DOMAIN schema.categories}
        values(n) ==
            IF ~up THEN <<>>
            ELSE IF ~schema.field_mappings[n].requires_join
            THEN StoreUniqueFieldValues(schema.field_mappings[n].field_path, t)
            ELSE StoreReferenceNames(schema.field_mappings[n].reference_collection, t)
    IN DictUpdate(schema.categories,
                  [n \in {m \in virtual : values(m) # <<>>} |-> values(n)])

\* get_cached_schema under functools.lru_cache: the memo answers for a tenant it has
\* seen, whatever _schema_cache holds by now.  <<>> stands for None.  The memo keeps
\* 100 keys and the model uses three, so it never evicts.
GetCachedSchema(memo, cache, t) ==
    IF t \in DOMAIN memo THEN memo[t]
    ELSE IF t \in DOMAIN cache THEN <<cache[t]>> ELSE <<>>

LruAfterCall(memo, cache, t) ==
    IF t \in DOMAIN memo THEN memo ELSE DictSet(memo, t, GetCachedSchema(memo, cache, t))

\* clear_cache
ClearCache(cache, t) ==
    IF t # "None" THEN [k \in DOMAIN cache \ {t} |-> cache[k]] ELSE EmptyDict

\* a build that writes _schema_cache at every step, with what it has so far
SchemaCacheEarly(cache, t, pc, categories, field_mappings) ==
    DictSet(cache, t, TenantSchema(t, categories, field_mappings))

\* extract_tenant_schema, lines 57-86: _schema_cache is written at line 80 alone, once
\* the schema is built; the earlier steps of the build leave it as it is
SchemaCacheAfter(cache, t, pc, categories, field_mappings) ==
    IF pc = "publish"
    THEN DictSet(cache, t, TenantSchema(t, categories, field_mappings))
    ELSE cache

\* _extract_tenant_categories over all the documents
RECURSIVE ExtractTenantCategories(_, _, _, _)
ExtractTenantCategories(docs, categories, v, up) ==
    IF docs = <<>> THEN categories
    ELSE ExtractTenantCategories(Tail(docs),
                                 ExtractCategoryStep(categories, Head(docs), v, up), v, up)

----------------------------------------------------------------------------
(* category_extracter.py: load_tenant_categories *)

\* db["category_attribute"].find({"tenant": t}): the attribute documents
RECURSIVE StoreAttributeDocs(_, _)
StoreAttributeDocs(docs, v) ==
    IF docs = <<>> THEN <<>>
    ELSE [i \in 1..Len(StoreAttributeNames(Head(docs).id, v)) |->
              [category |-> Head(docs).id, name |-> StoreAttributeNames(Head(docs).id, v)[i]]]
         \o StoreAttributeDocs(Tail(docs), v)

\* line 56: {str(cat["_id"]): cat["name"]}
LoadCategoryNames(t) ==
    [id \in {StoreCategoryDocs(t)[i].id : i \in 1..Len(StoreCategoryDocs(t))} |->
        (CHOOSE d \in SeqRange(StoreCategoryDocs(t)) : d.id = id).name]

\* lines 60-63, one turn of the loop over the attribute documents
LoadAttributeStep(category_attrs, categories, attr) ==
    IF attr.category \in DOMAIN categories /\ categories[attr.category] # ""
    THEN DictSet(category_attrs, categories[attr.category],
                 Append(IF categories[attr.category] \in DOMAIN category_attrs
                        THEN category_attrs[categories[attr.category]] ELSE <<>>,
                        attr.name))
    ELSE category_attrs

RECURSIVE LoadAttributes(_, _, _)
LoadAttributes(category_attrs, categories, attrs) ==
    IF attrs = <<>> THEN category_attrs
    ELSE LoadAttributes(LoadAttributeStep(category_attrs, categories, Head(attrs)),
                        categories, Tail(attrs))

\* TENANT_CATEGORY_CACHE is written at line 66 alone, after the loop
CategoryCacheAfter(cache, t, pc, category_attrs) ==
    IF pc = "load_publish" THEN DictSet(cache, t, category_attrs) ELSE cache

----------------------------------------------------------------------------
(* The callers of the schema service *)

Workers == {"w1", "w2"}

MaxCalls == 3

Idle ==
    [op |-> "idle", tenant |-> "none", pc |-> "idle", todo |-> <<>>,
     categories |-> EmptyDict, schema |-> <<>>, readFailed |-> FALSE, sawFirst |-> FALSE]

NoReturn ==
    [op |-> "none", tenant |-> "none", value |-> <<>>, err |-> FALSE,
     readFailed |-> FALSE, cached |-> FALSE, expect |-> <<>>]

CacheIdle ==
    /\ schemaCache = EmptyDict
    /\ lruMemo = EmptyDict
    /\ tenantCategoryCache = EmptyDict
    /\ storeVer = [t \in ValidHex |-> 1]
    /\ storeUp = TRUE
    /\ worker = [w \in Workers |-> Idle]
    /\ returned = NoReturn
    /\ firstResolved = EmptyDict
    /\ calls = 0

\* the call of worker w returns val, or raises when err
Finish(w, val, err, failed, cache) ==
    LET me == worker[w]
    IN /\ worker' = [worker EXCEPT ![w] = Idle]
       /\ returned' = [op |-> me.op, tenant |-> me.tenant, value |-> val, err |-> err,
                       readFailed |-> failed, cached |-> me.tenant \in DOMAIN cache,
                       expect |-> IF me.sawFirst /\ me.tenant \in DOMAIN firstResolved
                                  THEN <<firstResolved[me.tenant]>> ELSE <<>>]
       /\ firstResolved' = IF me.op = "resolve" /\ me.tenant \notin DOMAIN firstResolved
                           THEN DictSet(firstResolved, me.tenant, val)
                           ELSE firstResolved

\* get_tenant_categories_for_ai(t), lines 309-312: the cached-schema lookup
ResolveStart(w, t) ==
    /\ worker[w].op = "idle"
    /\ calls < MaxCalls
    /\ calls' = calls + 1
    /\ lruMemo' = LruAfterCall(lruMemo, schemaCache, t)
    /\ LET schema == GetCachedSchema(lruMemo, schemaCache, t)
       IN worker' = [worker EXCEPT ![w] =
                        [Idle EXCEPT !.op = "resolve", !.tenant = t, !.schema = schema,
                                     !.pc = IF schema # <<>> THEN "virtual" ELSE "begin",
                                     !.sawFirst = t \in DOMAIN firstResolved]]
    /\ UNCHANGED <<schemaCache, tenantCategoryCache, storeVer, storeUp, returned,
                   firstResolved>>
    /\ UNCHANGED nonCacheVars

\* extract_tenant_schema(t) called directly, as example_usage does at line 386
ExtractStart(w, t) ==
    /\ worker[w].op = "idle"
    /\ calls < MaxCalls
    /\ calls' = calls + 1
    /\ worker' = [worker EXCEPT ![w] =
                    [Idle EXCEPT !.op = "extract", !.tenant = t, !.pc = "begin"]]
    /\ UNCHANGED <<schemaCache, lruMemo, tenantCategoryCache, storeVer, storeUp,
                   returned, firstResolved>>
    /\ UNCHANGED nonCacheVars

\* extract_tenant_schema, line 62, and the categories.find of line 96.  An id that is
\* no ObjectId raises: extract_tenant_schema re-raises it (line 86) and
\* get_tenant_categories_for_ai returns {} for it (line 336).  A failed find is
\* swallowed at line 110 and the categories are {}.
ExtractBegin(w) ==
    LET me == worker[w]
    IN /\ me.pc = "begin"
       /\ IF ObjectIdRaises(me.tenant)
          THEN IF me.op = "resolve"
               THEN Finish(w, EmptyDict, FALSE, me.readFailed, schemaCache)
               ELSE Finish(w, <<>>, TRUE, me.readFailed, schemaCache)
          ELSE /\ worker' = [worker EXCEPT ![w] =
                    IF storeUp
                    THEN [me EXCEPT !.todo = StoreCategoryDocs(me.tenant),
                                    !.pc = "categories"]
                    ELSE [me EXCEPT !.readFailed = TRUE, !.pc = "mappings"]]
               /\ UNCHANGED <<returned, firstResolved>>
       /\ schemaCache' = SchemaCacheAfter(schemaCache, me.tenant, me.pc,
                                          me.categories, EmptyDict)
       /\ UNCHANGED <<lruMemo, tenantCategoryCache, storeVer, storeUp, calls>>
       /\ UNCHANGED nonCacheVars

\* _extract_tenant_categories, lines 98-106: one category document
ExtractCategory(w) ==
    LET me == worker[w]
        categories == ExtractCategoryStep(me.categories, Head(me.todo),
                                          storeVer[me.tenant], storeUp)
    IN /\ me.pc = "categories"
       /\ me.todo # <<>>
       /\ worker' = [worker EXCEPT ![w] =
                        [me EXCEPT !.categories = categories,
                                   !.todo = Tail(me.todo),
                                   !.readFailed = me.readFailed \/ ~storeUp,
                                   !.pc = IF Tail(me.todo) = <<>>
                                          THEN "mappings" ELSE "categories"]]
       /\ schemaCache' = SchemaCacheAfter(schemaCache, me.tenant, me.pc,
                                          categories, EmptyDict)
       /\ UNCHANGED <<lruMemo, tenantCategoryCache, storeVer, storeUp, returned,
                      firstResolved, calls>>
       /\ UNCHANGED nonCacheVars

\* extract_tenant_schema, lines 69-77: the field mappings and the TenantSchema
ExtractMappings(w) ==
    LET me == worker[w]
        field_mappings == DiscoverFieldMappings(me.tenant, me.categories,
                                                storeVer[me.tenant], storeUp)
    IN /\ me.pc = "mappings"
       /\ worker' = [worker EXCEPT ![w] =
                        [me EXCEPT !.schema = <<TenantSchema(me.tenant, me.categories,
                                                             field_mappings)>>,
                                   !.readFailed = me.readFailed \/ ~storeUp,
                                   !.pc = "publish"]]
       /\ schemaCache' = SchemaCacheAfter(schemaCache, me.tenant, me.pc,
                                          me.categories, field_mappings)
       /\ UNCHANGED <<lruMemo, tenantCategoryCache, storeVer, storeUp, returned,
                      firstResolved, calls>>
       /\ UNCHANGED nonCacheVars

\* extract_tenant_schema, lines 80-82: the cache write and the return
ExtractPublish(w) ==
    LET me == worker[w]
    IN /\ me.pc = "publish"
       /\ schemaCache' = SchemaCacheAfter(schemaCache, me.tenant, me.pc,
                                          me.schema[1].categories,
                                          me.schema[1].field_mappings)
       /\ IF me.op = "resolve"
          THEN /\ worker' = [worker EXCEPT ![w] = [me EXCEPT !.pc = "virtual"]]
               /\ UNCHANGED <<returned, firstResolved>>
          ELSE Finish(w, me.schema[1], FALSE, me.readFailed, schemaCache')
       /\ UNCHANGED <<lruMemo, tenantCategoryCache, storeVer, storeUp, calls>>
       /\ UNCHANGED nonCacheVars

\* get_tenant_categories_for_ai, lines 315-332: the vocabulary handed to the caller
ResolveReturn(w) ==
    LET me == worker[w]
    IN /\ me.pc = "virtual"
       /\ Finish(w, AiCategories(me.schema[1], me.tenant, storeUp), FALSE,
                 me.readFailed \/ ~storeUp, schemaCache)
       /\ UNCHANGED <<schemaCache, lruMemo, tenantCategoryCache, storeVer, storeUp,
                      calls>>
       /\ UNCHANGED nonCacheVars

\* get_cached_schema(t) called by itself
Lookup(t) ==
    /\ calls < MaxCalls
    /\ calls' = calls + 1
    /\ lruMemo' = LruAfterCall(lruMemo, schemaCache, t)
    /\ returned' = [NoReturn EXCEPT !.op = "lookup", !.tenant = t,
                                    !.value = GetCachedSchema(lruMemo, schemaCache, t),
                                    !.cached = t \in DOMAIN schemaCache]
    /\ UNCHANGED <<schemaCache, tenantCategoryCache, storeVer, storeUp, worker,
                   firstResolved>>
    /\ UNCHANGED nonCacheVars

\* clear_cache(t), or clear_cache() when t is "None"
Clear(t) ==
    /\ calls < MaxCalls
    /\ calls' = calls + 1
    /\ schemaCache' = ClearCache(schemaCache, t)
    /\ firstResolved' = ClearCache(firstResolved, t)
    /\ worker' = [w \in Workers |->
                    IF t = "None" \/ worker[w].tenant = t
                    THEN [worker[w] EXCEPT !.sawFirst = FALSE] ELSE worker[w]]
    /\ returned' = [NoReturn EXCEPT !.op = "clear", !.tenant = t]
    /\ UNCHANGED <<lruMemo, tenantCategoryCache, storeVer, storeUp>>
    /\ UNCHANGED nonCacheVars

\* load_tenant_categories(t), lines 48-50: the cache check
LoadStart(w, t) ==
    /\ worker[w].op = "idle"
    /\ calls < MaxCalls
    /\ calls' = calls + 1
    /\ IF t \in DOMAIN tenantCategoryCache
       THEN /\ worker' = worker
            /\ returned' = [NoReturn EXCEPT !.op = "load", !.tenant = t,
                                            !.value = tenantCategoryCache[t],
                                            !.cached = TRUE]
       ELSE /\ worker' = [worker EXCEPT ![w] =
                            [Idle EXCEPT !.op = "load", !.tenant = t,
                                         !.pc = "load_categories"]]
            /\ UNCHANGED returned
    /\ UNCHANGED <<schemaCache, lruMemo, tenantCategoryCache, storeVer, storeUp,
                   firstResolved>>
    /\ UNCHANGED nonCacheVars

\* line 56: the category names; a failed read raises out of load_tenant_categories
LoadCategories(w) ==
    LET me == worker[w]
    IN /\ me.pc = "load_categories"
       /\ IF storeUp
          THEN /\ worker' = [worker EXCEPT ![w] =
                                [me EXCEPT !.categories = LoadCategoryNames(me.tenant),
                                           !.pc = "load_find"]]
               /\ UNCHANGED <<returned, firstResolved>>
          ELSE Finish(w, <<>>, TRUE, TRUE, tenantCategoryCache)
       /\ tenantCategoryCache' = CategoryCacheAfter(tenantCategoryCache, me.tenant,
                                                    me.pc, EmptyDict)
       /\ UNCHANGED <<schemaCache, lruMemo, storeVer, storeUp, calls>>
       /\ UNCHANGED nonCacheVars

\* line 60: the attribute documents of the tenant
LoadFind(w) ==
    LET me == worker[w]
    IN /\ me.pc = "load_find"
       /\ IF storeUp
          THEN /\ worker' = [worker EXCEPT ![w] =
                    [me EXCEPT !.todo = StoreAttributeDocs(StoreCategoryDocs(me.tenant),
                                                           storeVer[me.tenant]),
                               !.schema = <<EmptyDict>>,
                               !.pc = "load_loop"]]
               /\ UNCHANGED <<returned, firstResolved>>
          ELSE Finish(w, <<>>, TRUE, TRUE, tenantCategoryCache)
       /\ tenantCategoryCache' = CategoryCacheAfter(tenantCategoryCache, me.tenant,
                                                    me.pc, EmptyDict)
       /\ UNCHANGED <<schemaCache, lruMemo, storeVer, storeUp, calls>>
       /\ UNCHANGED nonCacheVars

\* lines 60-63: one attribute document; category_attrs is held in me.schema[1]
LoadAttribute(w) ==
    LET me == worker[w]
        category_attrs == LoadAttributeStep(me.schema[1], me.categories, Head(me.todo))
    IN /\ me.pc = "load_loop"
       /\ me.todo # <<>>
       /\ worker' = [worker EXCEPT ![w] =
                        [me EXCEPT !.schema = <<category_attrs>>,
                                   !.todo = Tail(me.todo),
                                   !.pc = IF Tail(me.todo) = <<>>
                                          THEN "load_publish" ELSE "load_loop"]]
       /\ tenantCategoryCache' = CategoryCacheAfter(tenantCategoryCache, me.tenant,
                                                    me.pc, category_attrs)
       /\ UNCHANGED <<schemaCache, lruMemo, storeVer, storeUp, returned, firstResolved,
                      calls>>
       /\ UNCHANGED nonCacheVars

\* lines 65-67: the cache write and the return
LoadPublish(w) ==
    LET me == worker[w]
    IN /\ me.pc = "load_publish"
       /\ tenantCategoryCache' = CategoryCacheAfter(tenantCategoryCache, me.tenant,
                                                    me.pc, me.schema[1])
       /\ Finish(w, me.schema[1], FALSE, me.readFailed, tenantCategoryCache')
       /\ UNCHANGED <<schemaCache, lruMemo, storeVer, storeUp, calls>>
       /\ UNCHANGED nonCacheVars

\* the tenant's taxonomy is edited in the store
StoreChange(t) ==
    /\ storeVer[t] + 1 \in StoreVersions(t)
    /\ storeVer' = [storeVer EXCEPT ![t] = storeVer[t] + 1]
    /\ UNCHANGED <<schemaCache, lruMemo, tenantCategoryCache, storeUp, worker, returned,
                   firstResolved, calls>>
    /\ UNCHANGED nonCacheVars

\* the store becomes unreachable
StoreOutage ==
    /\ storeUp
    /\ storeUp' = FALSE
    /\ UNCHANGED <<schemaCache, lruMemo, tenantCategoryCache, storeVer, worker, returned,
                   firstResolved, calls>>
    /\ UNCHANGED nonCacheVars

\* the store is reachable again
StoreRecover ==
    /\ ~storeUp
    /\ storeUp' = TRUE
    /\ UNCHANGED <<schemaCache, lruMemo, tenantCategoryCache, storeVer, worker, returned,
                   firstResolved, calls>>
    /\ UNCHANGED nonCacheVars

----------------------------------------------------------------------------
(* Text: a str is the sequence of its characters, each a one-character string;
   "y_acute" names the precomposed character y with acute and "acute" the combining
   accent it decomposes to *)

LowerCaseLetters ==
    {"a", "b", "c", "d", "e", "f", "g", "h", "i", "j", "k", "l", "m",
     "n", "o", "p", "q", "r", "s", "t", "u", "v", "w", "x", "y", "z", "y_acute"}

Digits == {"0", "1", "2", "3", "4", "5", "6", "7", "8", "9"}

\* str.lower(), character by character
UpperToLower ==
    ("A" :> "a") @@ ("B" :> "b") @@ ("C" :> "c") @@ ("D" :> "d") @@ ("E" :> "e") @@
    ("F" :> "f") @@ ("G" :> "g") @@ ("H" :> "h") @@ ("I" :> "i") @@ ("J" :> "j") @@
    ("K" :> "k") @@ ("L" :> "l") @@ ("M" :> "m") @@ ("N" :> "n") @@ ("O" :> "o") @@
    ("P" :> "p") @@ ("Q" :> "q") @@ ("R" :> "r") @@ ("S" :> "s") @@ ("T" :> "t") @@
    ("U" :> "u") @@ ("V" :> "v") @@ ("W" :> "w") @@ ("X" :> "x") @@ ("Y" :> "y") @@
    ("Z" :> "z")

ToLower(c) == IF c \in DOMAIN UpperToLower THEN UpperToLower[c] ELSE c

Lower(text) == [i \in 1..Len(text) |-> ToLower(text[i])]

\* unicodedata.normalize("NFKD", text), character by character
NFKD(c) == IF c = "y_acute" THEN <<"y", "acute">> ELSE <<c>>

\* the \w and \s of re
IsWordChar(c) == c \in LowerCaseLetters \cup DOMAIN UpperToLower \cup Digits \cup {"_"}

IsSpace(c) == c = " "

RECURSIVE Normalize(_)
Normalize(text) ==
    IF text = <<>> THEN <<>> ELSE NFKD(Head(text)) \o Normalize(Tail(text))

\* re.sub(r"[^\w\s]", " ", text)
PunctuationToSpace(text) ==
    [i \in 1..Len(text) |-> IF IsWordChar(text[i]) \/ IsSpace(text[i]) THEN text[i] ELSE " "]

\* re.sub(r"\s+", " ", text)
RECURSIVE CollapseSpaces(_)
CollapseSpaces(text) ==
    IF Len(text) < 2 THEN text
    ELSE IF IsSpace(text[1]) /\ IsSpace(text[2]) THEN CollapseSpaces(Tail(text))
    ELSE <<text[1]>> \o CollapseSpaces(Tail(text))

\* str.strip()
RECURSIVE StripText(_)
StripText(text) ==
    IF text = <<>> THEN text
    ELSE IF IsSpace(Head(text)) THEN StripText(Tail(text))
    ELSE IF IsSpace(text[Len(text)]) THEN StripText(SubSeq(text, 1, Len(text) - 1))
    ELSE text

\* category_extracter.clean_text
CleanText(text) ==
    Lower(StripText(CollapseSpaces(PunctuationToSpace(Normalize(text)))))

\* needle in hay
Contains(hay, needle) ==
    \E i \in 1..(Len(hay) - Len(needle) + 1) : SubSeq(hay, i, i + Len(needle) - 1) = needle

\* str.split()
RECURSIVE SplitWords(_, _)
SplitWords(text, word) ==
    IF text = <<>> THEN (IF word = <<>> THEN <<>> ELSE <<word>>)
    ELSE IF IsSpace(Head(text))
    THEN (IF word = <<>> THEN <<>> ELSE <<word>>) \o SplitWords(Tail(text), <<>>)
    ELSE SplitWords(Tail(text), Append(word, Head(text)))

\* " ".join(words)
RECURSIVE JoinWords(_)
JoinWords(words) ==
    IF words = <<>> THEN <<>>
    ELSE IF Len(words) = 1 THEN words[1]
    ELSE words[1] \o <<" ">> \o JoinWords(Tail(words))

Max(a, b) == IF a >= b THEN a ELSE b

\* the length of a longest common subsequence, row by row: row[j] is the length for
\* the characters of a read so far and the first j characters of b
RECURSIVE LcsRow(_, _, _, _, _)
LcsRow(prev, c, b, j, row) ==
    LET cell == IF c = b[j]
                THEN (IF j = 1 THEN 0 ELSE prev[j - 1]) + 1
                ELSE Max(prev[j], IF j = 1 THEN 0 ELSE row[j - 1])
        next == Append(row, cell)
    IN IF j >= Len(b) \/ Len(next) # j THEN next
       ELSE LcsRow(prev, c, b, j + 1, next)

RECURSIVE LcsRows(_, _, _)
LcsRows(a, b, prev) ==
    LET row == LcsRow(prev, Head(a), b, 1, <<>>)
        rest == Tail(a)
    IN IF rest = <<>> \/ Len(row) # Len(b) THEN row
       ELSE LcsRows(rest, b, row)

Lcs(a, b) ==
    IF a = <<>> \/ b = <<>> THEN 0
    ELSE LcsRows(a, b, [j \in 1..Len(b) |-> 0])[Len(b)]

\* how often c occurs in text
Count(text, c) == Cardinality({i \in 1..Len(text) : text[i] = c})

RECURSIVE SumOver(_, _, _)
SumOver(chars, a, b) ==
    IF chars = {} THEN 0
    ELSE LET c == CHOOSE x \in chars : TRUE
             n == IF Count(a, c) <= Count(b, c) THEN Count(a, c) ELSE Count(b, c)
         IN n + SumOver(chars \ {c}, a, b)

\* the characters a and b share, with multiplicity: no common subsequence is longer
SharedCount(a, b) == SumOver(SeqRange(a), a, b)

\* rapidfuzz fuzz.ratio(a, b) = 100 * 2 * lcs / (len(a) + len(b)), 100 for two empty
\* strings; RatioGe is ratio >= n / d and RatioGt is ratio > n / d.  The shared
\* characters are counted first: the comparison fails without the subsequence when
\* even they are too few.
RatioGe(a, b, n, d) ==
    IF Len(a) + Len(b) = 0 THEN 100 * d >= n
    ELSE /\ 200 * SharedCount(a, b) * d >= n * (Len(a) + Len(b))
         /\ 200 * Lcs(a, b) * d >= n * (Len(a) + Len(b))

RatioGt(a, b, n, d) ==
    IF Len(a) + Len(b) = 0 THEN 100 * d > n
    ELSE /\ 200 * SharedCount(a, b) * d > n * (Len(a) + Len(b))
         /\ 200 * Lcs(a, b) * d > n * (Len(a) + Len(b))

\* ratio(a, x) > ratio(a, y)
RatioBetter(a, x, y) ==
    IF Len(a) + Len(x) = 0 THEN Len(y) > 0
    ELSE IF Len(a) + Len(y) = 0 THEN FALSE
    ELSE Lcs(a, x) * (Len(a) + Len(y)) > Lcs(a, y) * (Len(a) + Len(x))

\* how many characters of a occur anywhere in b: no common subsequence is longer, so
\* a ratio of n / d with any window w needs 200 * lcs * d >= n * (len(a) + lcs)
CommonBound(a, b) == Cardinality({i \in 1..Len(a) : \E j \in 1..Len(b) : a[i] = b[j]})

\* the windows of long that fuzz.partial_ratio aligns short with: every substring of
\* the length of short, and the shorter ones at either end
Windows(short, long) ==
    {SubSeq(long, i, i + Len(short) - 1) : i \in 1..(Len(long) - Len(short) + 1)}
    \cup {SubSeq(long, 1, k) : k \in 1..(Len(short) - 1)}
    \cup {SubSeq(long, Len(long) - k + 1, Len(long)) : k \in 1..(Len(short) - 1)}

\* rapidfuzz fuzz.partial_ratio(a, b) >= n / d
PartialRatioGe(a, b, n, d) ==
    LET short == IF Len(a) <= Len(b) THEN a ELSE b
        long == IF Len(a) <= Len(b) THEN b ELSE a
    IN IF short = <<>> THEN long = <<>> /\ 100 * d >= n
       ELSE \/ 100 * d >= n /\ Contains(long, short)
            \/ /\ CommonBound(short, long) * (200 * d - n) >= n * Len(short)
               /\ SharedCount(short, long) * (200 * d - n) >= n * Len(short)
               /\ \E w \in Windows(short, long) : RatioGe(short, w, n, d)

----------------------------------------------------------------------------
(* category_extracter.py: the rule-based parser and the classifier *)

STRUCTURED_TRIGGERS ==
    << <<"s", "h", "o", "w">>,
       <<"l", "i", "s", "t">>,
       <<"f", "i", "n", "d">>,
       <<"g", "e", "t">>,
       <<"g", "i", "v", "e", " ", "m", "e">>,
       <<"d", "i", "s", "p", "l", "a", "y">> >>

ADVISORY_TRIGGERS ==
    << <<"h", "o", "w", " ", "m", "a", "n", "y">>,
       <<"w", "h", "a", "t", " ", "i", "s", " ", "t", "h", "e", " ", "b", "e", "s", "t">>,
       <<"l", "e", "a", "s", "t">>,
       <<"m", "o", "s", "t">>,
       <<"s", "h", "o", "u", "l", "d">>,
       <<"w", "h", "y">> >>

\* a classifier without the advisory check of lines 83-85
ClassifyStructuredFirst(user_query, filters_found) ==
    LET query_clean == CleanText(user_query)
    IN IF /\ \E c \in DOMAIN filters_found : filters_found[c] # {}
          /\ \E i \in 1..Len(STRUCTURED_TRIGGERS) :
                Contains(query_clean, STRUCTURED_TRIGGERS[i])
       THEN "structured" ELSE "advisory"

\* a classifier that asks for a retrieval verb only, whatever the filters
ClassifyVerbOnly(user_query, filters_found) ==
    LET query_clean == CleanText(user_query)
    IN IF \E i \in 1..Len(ADVISORY_TRIGGERS) : Contains(query_clean, ADVISORY_TRIGGERS[i])
       THEN "advisory"
       ELSE IF \E i \in 1..Len(STRUCTURED_TRIGGERS) :
                    Contains(query_clean, STRUCTURED_TRIGGERS[i])
            THEN "structured" ELSE "advisory"

\* classify_query; filters_found maps a category to the values found for it, and
\* None behaves as {} does
ClassifyQuery(user_query, filters_found) ==
    LET query_clean == CleanText(user_query)
        has_filter == \E c \in DOMAIN filters_found : filters_found[c] # {}
        has_structured_verb ==
            \E i \in 1..Len(STRUCTURED_TRIGGERS) : Contains(query_clean, STRUCTURED_TRIGGERS[i])
    IN IF \E i \in 1..Len(ADVISORY_TRIGGERS) : Contains(query_clean, ADVISORY_TRIGGERS[i])
       THEN "advisory"
       ELSE IF has_filter /\ has_structured_verb THEN "structured" ELSE "advisory"

\* token.lemma_ of spaCy for the words of the model's queries
Lemma(word) ==
    CASE word = <<"b", "l", "o", "g", "s">> -> <<"b", "l", "o", "g">>
      [] word = <<"s", "t", "a", "g", "e", "s">> -> <<"s", "t", "a", "g", "e">>
      [] OTHER -> word

\* token.is_alpha
IsAlpha(word) == \A i \in 1..Len(word) : ToLower(word[i]) \in LowerCaseLetters

\* lemmatize_words; nlp tells whether spaCy loaded
LemmatizeWords(text, nlp) ==
    IF ~nlp THEN SplitWords(text, <<>>)
    ELSE LET alpha == SelectSeq(SplitWords(text, <<>>), IsAlpha)
         IN [i \in 1..Len(alpha) |-> Lemma(alpha[i])]

\* \b of re at position i of text, between text[i-1] and text[i]
WordBoundary(text, i) ==
    (i > 1 /\ IsWordChar(text[i - 1])) # (i <= Len(text) /\ IsWordChar(text[i]))

\* re.search(rf"\b{re.escape(opt)}\b", text)
RegexWordSearch(opt, text) ==
    \E i \in 1..(Len(text) - Len(opt) + 1) :
        /\ SubSeq(text, i, i + Len(opt) - 1) = opt
        /\ WordBoundary(text, i)
        /\ WordBoundary(text, i + Len(opt))

\* rapidfuzz fuzz.WRatio(a, b) >= n for strings of one token each, where the token
\* ratios add nothing to ratio and partial_ratio: 0 for an empty string, ratio when
\* the lengths are within 1.5 of each other, else also partial_ratio scaled by 0.9
\* (by 0.6 from a length ratio of 8)
WRatioGe(a, b, n) ==
    LET short == IF Len(a) <= Len(b) THEN Len(a) ELSE Len(b)
        long == IF Len(a) <= Len(b) THEN Len(b) ELSE Len(a)
    IN IF short = 0 THEN FALSE
       ELSE IF 2 * long < 3 * short THEN RatioGe(a, b, n, 1)
       ELSE IF long < 8 * short
       THEN RatioGe(a, b, n, 1) \/ PartialRatioGe(a, b, 10 * n, 9)
       ELSE RatioGe(a, b, n, 1) \/ PartialRatioGe(a, b, 10 * n, 6)

\* fuzzy_extract(query, options), threshold 85: the options that match
FuzzyExtract(query, options) ==
    {options[i] : i \in {j \in 1..Len(options) : WRatioGe(query, options[j], 85)}}

\* list.index
Index(list, x) == CHOOSE i \in 1..Len(list) :
                    /\ list[i] = x
                    /\ \A j \in 1..(i - 1) : list[j] # x

\* parse_query, lines 105-127: the matches of one category
CategoryMatches(options, query_clean, lemmas) ==
    LET normalized_options == [i \in 1..Len(options) |-> CleanText(options[i])]
        exact == {options[i] : i \in {j \in 1..Len(options) :
                                RegexWordSearch(normalized_options[j], query_clean)}}
        lemma == {options[i] : i \in {j \in 1..Len(options) :
                                \E k \in 1..Len(lemmas) : lemmas[k] = Lower(normalized_options[j])}}
        fuzzy == {options[Index(normalized_options, m)] :
                    m \in UNION {FuzzyExtract(lemmas[k], normalized_options) :
                                    k \in 1..Len(lemmas)}}
    IN exact \cup lemma \cup fuzzy

\* llm.extract_filters_from_llm: {} when the call or the JSON fails, else every value
\* as a list
ExtractFiltersFromLlm(response) ==
    IF ~response.ok THEN EmptyDict
    ELSE [k \in DOMAIN response.json |->
            IF response.json[k].t = "list" THEN SeqRange(response.json[k].l)
            ELSE {response.json[k].l}]

\* parse_query, lines 98-127: the filters the three rule tiers find, CATEGORY_MAP
\* being what load_tenant_categories returns
RuleFilters(user_query, CATEGORY_MAP, nlp) ==
    LET query_clean == CleanText(user_query)
        lemmas == LemmatizeWords(query_clean, nlp)
        matches == [c \in DOMAIN CATEGORY_MAP |->
                        CategoryMatches(CATEGORY_MAP[c], query_clean, lemmas)]
    IN [c \in {k \in DOMAIN CATEGORY_MAP : matches[k] # {}} |-> matches[c]]

\* parse_query, lines 129-141: the fallback to the model, response being what it
\* answers when asked, and the classification
RuleParseResult(user_query, found, use_llm, response) ==
    LET filters == IF use_llm /\ DOMAIN found = {}
                   THEN DictUpdate(found, ExtractFiltersFromLlm(response))
                   ELSE found
    IN [classification |-> ClassifyQuery(user_query, filters), filters |-> filters]

----------------------------------------------------------------------------
(* query_parser_working.py: the parser that asks the model with a tools schema *)

\* synonyms_map, in the order of the dict
SynonymsMapWorking ==
    << [phrase |-> <<"m", "a", "r", "k", "e", "t", "i", "n", "g", " ", "p", "e", "r", "s", "o", "n", "a", "s">>,
        cat |-> "Primary Audience", mapped_value |-> <<"M", "a", "r", "k", "e", "t", "i", "n", "g", " ", "P", "e", "r", "s", "o", "n", "a", "s">>],
       [phrase |-> <<"r", "e", "v", "e", "n", "u", "e", " ", "t", "e", "a", "m", "s">>,
        cat |-> "Primary Audience", mapped_value |-> <<"R", "e", "v", "e", "n", "u", "e", " ", "T", "e", "a", "m", "s">>],
       [phrase |-> <<"n", "o", "n", " ", "e", "n", "g", "l", "i", "s", "h">>,
        cat |-> "Language", mapped_value |-> <<"G", "e", "r", "m", "a", "n">>] >>

\* the values of a filter slot: None and [] give none
SlotValues(slot) == IF slot.t = "list" THEN SeqRange(slot.l) ELSE {}

\* normalize_filters: {cat: (vals or [])}
NormalizeFiltersWorking(filters) == [c \in DOMAIN filters |-> SlotValues(filters[c])]

\* filters.get(cat, [])
ValuesOf(filters, cat) == IF cat \in DOMAIN filters THEN filters[cat] ELSE {}

\* filters.setdefault(cat, []).append(value)
AddValue(filters, cat, value) == DictSet(filters, cat, ValuesOf(filters, cat) \cup {value})

\* categories.get(cat, [])
OptionsOf(categories, cat) ==
    IF cat \in DOMAIN categories THEN SeqRange(categories[cat]) ELSE {}

\* post_process_results, step 1: a quoted entity that is a value of a category
RECURSIVE MapQuotedExact(_, _, _)
MapQuotedExact(filters, entities, categories) ==
    IF entities = <<>> THEN filters
    ELSE LET hit == {c \in DOMAIN categories : Head(entities) \in SeqRange(categories[c])}
         IN MapQuotedExact(
                [c \in DOMAIN filters \cup hit |->
                    IF c \in hit THEN ValuesOf(filters, c) \cup {Head(entities)}
                    ELSE filters[c]],
                Tail(entities), categories)

\* post_process_results, step 2: a phrase of synonyms_map in the query text
RECURSIVE ApplyPhrases(_, _, _)
ApplyPhrases(filters, synonyms, query_text) ==
    IF synonyms = <<>> THEN filters
    ELSE ApplyPhrases(
            IF Contains(Lower(query_text), Lower(Head(synonyms).phrase))
            THEN AddValue(filters, Head(synonyms).cat, Head(synonyms).mapped_value)
            ELSE filters,
            Tail(synonyms), query_text)

\* apply_synonyms_map, threshold 85: "for val in mapped_values" runs over the
\* characters of the mapped value, and a character is kept when it is a value of
\* the category
RECURSIVE ApplySynonymsMap(_, _, _, _)
ApplySynonymsMap(query_text, filters, categories, synonyms) ==
    IF synonyms = <<>> THEN filters
    ELSE LET syn == Head(synonyms)
             vals == {<<syn.mapped_value[i]>> : i \in 1..Len(syn.mapped_value)}
                        \cap OptionsOf(categories, syn.cat)
         IN ApplySynonymsMap(query_text,
                IF vals # {} /\ PartialRatioGe(Lower(syn.phrase), Lower(query_text), 85, 1)
                THEN DictSet(filters, syn.cat, ValuesOf(filters, syn.cat) \cup vals)
                ELSE filters,
                categories, Tail(synonyms))

\* post_process_results(parsed_data, categories)
PostProcessResults(parsed_data, categories) ==
    LET filters == NormalizeFiltersWorking(parsed_data.filters)
        quoted == MapQuotedExact(filters, parsed_data.quoted_entities, categories)
        phrases == ApplyPhrases(quoted, SynonymsMapWorking, parsed_data.query_text)
        fuzzy == ApplySynonymsMap(parsed_data.query_text, phrases, categories,
                                  SynonymsMapWorking)
    IN [classification |-> parsed_data.classification, filters |-> fuzzy]

----------------------------------------------------------------------------
(* query_parser.py: TemporalParser.  The queries of the model separate their words by
   single spaces, so a \s+ of a pattern is one space and a lazy group that must be
   followed by a space or the end is a run of whole words *)

\* int(s) for a string of digits
RECURSIVE ToInt(_)
ToInt(s) ==
    IF s = <<>> THEN 0
    ELSE 10 * ToInt(SubSeq(s, 1, Len(s) - 1))
         + (CHOOSE n \in 0..9 : ToString(n) = s[Len(s)])

IsDigits(s) == s # <<>> /\ \A i \in 1..Len(s) : s[i] \in Digits

\* the pieces of text between the occurrences of a separator character
RECURSIVE SplitOn(_, _, _)
SplitOn(text, sep, part) ==
    IF text = <<>> THEN <<part>>
    ELSE IF Head(text) = sep THEN <<part>> \o SplitOn(Tail(text), sep, <<>>)
    ELSE SplitOn(Tail(text), sep, Append(part, Head(text)))

HasSuffix(word, suffix) ==
    Len(word) >= Len(suffix) /\ SubSeq(word, Len(word) - Len(suffix) + 1, Len(word)) = suffix

HasPrefix(word, prefix) ==
    Len(word) >= Len(prefix) /\ SubSeq(word, 1, Len(prefix)) = prefix

\* the months dict of _parse_date_string, in its order; also the names %B accepts
MonthNames ==
    << <<"j", "a", "n", "u", "a", "r", "y">>,
       <<"f", "e", "b", "r", "u", "a", "r", "y">>,
       <<"m", "a", "r", "c", "h">>,
       <<"a", "p", "r", "i", "l">>,
       <<"m", "a", "y">>,
       <<"j", "u", "n", "e">>,
       <<"j", "u", "l", "y">>,
       <<"a", "u", "g", "u", "s", "t">>,
       <<"s", "e", "p", "t", "e", "m", "b", "e", "r">>,
       <<"o", "c", "t", "o", "b", "e", "r">>,
       <<"n", "o", "v", "e", "m", "b", "e", "r">>,
       <<"d", "e", "c", "e", "m", "b", "e", "r">> >>

DaysInMonth(year, month) ==
    IF month = 2
    THEN (IF year % 4 = 0 /\ (year % 100 # 0 \/ year % 400 = 0) THEN 29 ELSE 28)
    ELSE IF month \in {4, 6, 9, 11} THEN 30 ELSE 31

NoDate == [k |-> "None", year |-> 0, month |-> 0, day |-> 0]

ValueError == [k |-> "ValueError", year |-> 0, month |-> 0, day |-> 0]

\* datetime(year, month, day): ValueError for a date that does not exist
Datetime(year, month, day) ==
    IF year >= 1 /\ month \in 1..12 /\ day >= 1 /\ day <= DaysInMonth(year, month)
    THEN [k |-> "date", year |-> year, month |-> month, day |-> day]
    ELSE ValueError

\* the date of the texts %Y, %m (or the number of a %B) and %d matched: %Y is four
\* digits, %m one or two digits from 1 to 12, %d one or two digits from 1 to 31
DateOfFields(y, month, d) ==
    IF /\ IsDigits(y) /\ Len(y) = 4
       /\ month \in 1..12
       /\ IsDigits(d) /\ Len(d) <= 2 /\ ToInt(d) \in 1..31
    THEN Datetime(ToInt(y), month, ToInt(d))
    ELSE ValueError

MonthOfDigits(m) == IF IsDigits(m) /\ Len(m) <= 2 THEN ToInt(m) ELSE 0

MonthOfName(word) ==
    IF \E m \in 1..12 : MonthNames[m] = Lower(word)
    THEN CHOOSE m \in 1..12 : MonthNames[m] = Lower(word)
    ELSE 0

\* the formats list of _parse_date_string
DateFormats == <<"%Y-%m-%d", "%m/%d/%Y", "%d/%m/%Y", "%B %d, %Y", "%d %B %Y", "%Y">>

\* datetime.strptime(s, fmt) for the formats of DateFormats: the whole of s must match
Strptime(s, fmt) ==
    LET dash == SplitOn(s, "-", <<>>)
        slash == SplitOn(s, "/", <<>>)
        words == SplitOn(s, " ", <<>>)
    IN CASE fmt = "%Y-%m-%d" ->
                IF Len(dash) = 3
                THEN DateOfFields(dash[1], MonthOfDigits(dash[2]), dash[3]) ELSE ValueError
         [] fmt = "%m/%d/%Y" ->
                IF Len(slash) = 3
                THEN DateOfFields(slash[3], MonthOfDigits(slash[1]), slash[2]) ELSE ValueError
         [] fmt = "%d/%m/%Y" ->
                IF Len(slash) = 3
                THEN DateOfFields(slash[3], MonthOfDigits(slash[2]), slash[1]) ELSE ValueError
         [] fmt = "%B %d, %Y" ->
                IF Len(words) = 3 /\ HasSuffix(words[2], <<",">>)
                THEN DateOfFields(words[3], MonthOfName(words[1]),
                                  SubSeq(words[2], 1, Len(words[2]) - 1))
                ELSE ValueError
         [] fmt = "%d %B %Y" ->
                IF Len(words) = 3
                THEN DateOfFields(words[3], MonthOfName(words[2]), words[1]) ELSE ValueError
         [] fmt = "%Y" -> DateOfFields(s, 1, <<"1">>)

\* re.search(r'\b(\d{lo,hi})\b', s): the first run of digits of that length with no
\* word character on either side, or <<>>
StandaloneDigits(s, lo, hi) ==
    LET runs == {r \in (1..Len(s)) \X (1..Len(s)) :
                    /\ r[2] - r[1] + 1 \in lo..hi
                    /\ \A i \in r[1]..r[2] : s[i] \in Digits
                    /\ r[1] = 1 \/ ~IsWordChar(s[r[1] - 1])
                    /\ r[2] = Len(s) \/ ~IsWordChar(s[r[2] + 1])}
    IN IF runs = {} THEN <<>>
       ELSE LET first == CHOOSE r \in runs : \A q \in runs : r[1] <= q[1]
            IN SubSeq(s, first[1], first[2])

\* TemporalParser._parse_date_string: a date, NoDate for None, or ValueError when the
\* datetime() of line 171 raises
ParseDateString(date_str) ==
    LET s == StripText(date_str)
        tried == [i \in 1..Len(DateFormats) |-> Strptime(s, DateFormats[i])]
        matched == {i \in 1..Len(DateFormats) : tried[i].k = "date"}
        named == {m \in 1..12 : Contains(Lower(s), MonthNames[m])}
        year_match == StandaloneDigits(s, 4, 4)
        day_match == StandaloneDigits(s, 1, 2)
    IN IF matched # {} THEN tried[CHOOSE i \in matched : \A j \in matched : i <= j]
       ELSE IF named = {} \/ year_match = <<>> THEN NoDate
       ELSE Datetime(ToInt(year_match),
                     CHOOSE m \in named : \A n \in named : m <= n,
                     IF day_match = <<>> THEN 1 ELSE ToInt(day_match))

\* the range_patterns of parse_temporal_constraints: the word that opens the range
\* (none for the third pattern) and the word between the two groups
RangePatterns ==
    << [open |-> <<"b", "e", "t", "w", "e", "e", "n">>, middle |-> <<"a", "n", "d">>],
       [open |-> <<"f", "r", "o", "m">>, middle |-> <<"t", "o">>],
       [open |-> <<>>, middle |-> <<"t", "o">>] >>

\* re.search of a range pattern over the words of the query: the two groups, or <<>>.
\* The match starts at the first word that ends with the opening word and has the
\* middle word two or more words on, with a word after it; the first group runs lazily
\* to the first such middle word, the second is the one word after it
RangeMatch(words, pattern) ==
    LET n == Len(words)
        opens == IF pattern.open = <<>> THEN {0}
                 ELSE {k \in 1..n : HasSuffix(words[k], pattern.open)}
        Middles(k) == {j \in (k + 2)..(n - 1) : words[j] = pattern.middle}
        starts == {k \in opens : Middles(k) # {}}
    IN IF starts = {} THEN <<>>
       ELSE LET k == CHOOSE a \in starts : \A b \in starts : a <= b
                j == CHOOSE a \in Middles(k) : \A b \in Middles(k) : a <= b
            IN << JoinWords(SubSeq(words, k + 1, j - 1)), words[j + 1] >>

\* re.search(r'(?:w1|w2)\s+(.+?)(?:\s|$)'): the word after the first word that ends
\* with one of the keywords, or <<>>
WordAfter(words, keywords) ==
    LET at == {k \in 1..(Len(words) - 1) :
                \E i \in 1..Len(keywords) : HasSuffix(words[k], keywords[i])}
    IN IF at = {} THEN <<>>
       ELSE <<words[(CHOOSE a \in at : \A b \in at : a <= b) + 1]>>

TimeUnits == << <<"d", "a", "y">>, <<"w", "e", "e", "k">>, <<"m", "o", "n", "t", "h">>, <<"y", "e", "a", "r">> >>

PeriodUnits == << <<"w", "e", "e", "k">>, <<"m", "o", "n", "t", "h">>, <<"y", "e", "a", "r">> >>

\* RELATIVE_PATTERNS, in the order of the dict: the word the pattern opens with, whether
\* a number follows it, the words one of which must come next, and the type
RelativePatterns ==
    << [open |-> <<"l", "a", "s", "t">>, number |-> TRUE, next |-> TimeUnits, type |-> "relative_past"],
       [open |-> <<"p", "a", "s", "t">>, number |-> TRUE, next |-> TimeUnits, type |-> "relative_past"],
       [open |-> <<"n", "e", "x", "t">>, number |-> TRUE, next |-> TimeUnits, type |-> "relative_future"],
       [open |-> <<>>, number |-> FALSE,
        next |-> << <<"t", "o", "d", "a", "y">>, <<"y", "e", "s", "t", "e", "r", "d", "a", "y">>, <<"t", "o", "m", "o", "r", "r", "o", "w">> >>,
        type |-> "specific_relative"],
       [open |-> <<"t", "h", "i", "s">>, number |-> FALSE, next |-> PeriodUnits, type |-> "current_period"],
       [open |-> <<"l", "a", "s", "t">>, number |-> FALSE, next |-> PeriodUnits, type |-> "previous_period"] >>

\* re.search of a relative pattern over the lowercased query and its words
RelativeMatches(query_lower, words, pattern) ==
    IF pattern.open = <<>>
    THEN \E i \in 1..Len(pattern.next) : Contains(query_lower, pattern.next[i])
    ELSE \E k \in 1..Len(words) :
            LET u == IF pattern.number THEN k + 2 ELSE k + 1
            IN /\ u <= Len(words)
               /\ HasSuffix(words[k], pattern.open)
               /\ pattern.number => IsDigits(words[k + 1])
               /\ \E i \in 1..Len(pattern.next) : HasPrefix(words[u], pattern.next[i])

\* lines 127-135: the type of the first pattern of RELATIVE_PATTERNS that matches, as
\* temporal_info["relative"]["type"], or "None"
RelativeOf(query_lower, words) ==
    LET hits == {p \in 1..Len(RelativePatterns) :
                    RelativeMatches(query_lower, words, RelativePatterns[p])}
    IN IF hits = {} THEN "None"
       ELSE RelativePatterns[CHOOSE p \in hits : \A q \in hits : p <= q].type

TemporalInfo(type, start_date, end_date, relative, range) ==
    [type |-> type, start_date |-> start_date, end_date |-> end_date,
     relative |-> relative, range |-> range]

\* lines 88-102, from pattern p on: "range" with the two dates when a pattern matches
\* and both groups parse, "ValueError" when parsing a group raises, "None" otherwise
RECURSIVE RangeOf(_, _)
RangeOf(words, p) ==
    IF p > Len(RangePatterns) THEN [k |-> "None", start |-> NoDate, end |-> NoDate]
    ELSE LET match == RangeMatch(words, RangePatterns[p])
             start_date == ParseDateString(match[1])
             end_date == ParseDateString(match[2])
         IN IF match = <<>> THEN RangeOf(words, p + 1)
            ELSE IF start_date.k = "ValueError" \/ end_date.k = "ValueError"
            THEN [k |-> "ValueError", start |-> NoDate, end |-> NoDate]
            ELSE IF start_date.k = "date" /\ end_date.k = "date"
            THEN [k |-> "range", start |-> start_date, end |-> end_date]
            ELSE RangeOf(words, p + 1)

\* TemporalParser.parse_temporal_constraints: the exception that leaves it, or "none",
\* and the temporal_info it returns.  A date stands for its isoformat(); of the entry
\* "relative" the type is kept
ParseTemporalConstraints(query_text) ==
    LET query_lower == Lower(query_text)
        words == SplitOn(query_lower, " ", <<>>)
        range == RangeOf(words, 1)
        before == WordAfter(words, << <<"b", "e", "f", "o", "r", "e">> >>)
        before_date == IF before = <<>> THEN NoDate ELSE ParseDateString(before[1])
        after == WordAfter(words, << <<"a", "f", "t", "e", "r">>, <<"s", "i", "n", "c", "e">> >>)
        after_date == IF after = <<>> THEN NoDate ELSE ParseDateString(after[1])
        raised == [raised |-> "ValueError",
                   info |-> TemporalInfo("None", NoDate, NoDate, "None", FALSE)]
    IN IF range.k = "ValueError" THEN raised
       ELSE IF range.k = "range"
       THEN [raised |-> "none",
             info |-> TemporalInfo("range", range.start, range.end, "None", TRUE)]
       ELSE IF before_date.k = "ValueError" \/ after_date.k = "ValueError" THEN raised
       ELSE [raised |-> "none",
             info |-> TemporalInfo(
                        IF after_date.k = "date" THEN "after"
                        ELSE IF before_date.k = "date" THEN "before" ELSE "None",
                        after_date, before_date, RelativeOf(query_lower, words), FALSE)]

----------------------------------------------------------------------------
(* query_parser.py: the enhanced parser *)

\* synonyms_map, in the order of the dict; confidence in tenths
SynonymsMapEnhanced ==
    << [phrase |-> <<"m", "a", "r", "k", "e", "t", "i", "n", "g", " ", "p", "e", "r", "s", "o", "n", "a", "s">>, cat |-> "Primary Audience",
        mapped_value |-> <<"M", "a", "r", "k", "e", "t", "i", "n", "g", " ", "P", "e", "r", "s", "o", "n", "a", "s">>, confidence |-> 9],
       [phrase |-> <<"r", "e", "v", "e", "n", "u", "e", " ", "t", "e", "a", "m", "s">>, cat |-> "Primary Audience",
        mapped_value |-> <<"R", "e", "v", "e", "n", "u", "e", " ", "T", "e", "a", "m", "s">>, confidence |-> 9],
       [phrase |-> <<"s", "a", "l", "e", "s", " ", "t", "e", "a", "m", "s">>, cat |-> "Primary Audience",
        mapped_value |-> <<"R", "e", "v", "e", "n", "u", "e", " ", "T", "e", "a", "m", "s">>, confidence |-> 8],
       [phrase |-> <<"n", "o", "n", " ", "e", "n", "g", "l", "i", "s", "h">>, cat |-> "Language",
        mapped_value |-> <<"G", "e", "r", "m", "a", "n">>, confidence |-> 7],
       [phrase |-> <<"d", "e", "m", "a", "n", "d", " ", "g", "e", "n">>, cat |-> "Tags",
        mapped_value |-> <<"D", "e", "m", "a", "n", "d", " ", "G", "e", "n", "e", "r", "a", "t", "i", "o", "n">>, confidence |-> 8],
       [phrase |-> <<"c", "a", "s", "e", " ", "s", "t", "u", "d", "i", "e", "s">>, cat |-> "Page Type",
        mapped_value |-> <<"C", "a", "s", "e", " ", "S", "t", "u", "d", "y">>, confidence |-> 9],
       [phrase |-> <<"t", "o", "p", " ", "o", "f", " ", "f", "u", "n", "n", "e", "l">>, cat |-> "Funnel Stage",
        mapped_value |-> <<"T", "O", "F", "U">>, confidence |-> 9],
       [phrase |-> <<"m", "i", "d", "d", "l", "e", " ", "o", "f", " ", "f", "u", "n", "n", "e", "l">>, cat |-> "Funnel Stage",
        mapped_value |-> <<"M", "O", "F", "U">>, confidence |-> 9],
       [phrase |-> <<"b", "o", "t", "t", "o", "m", " ", "o", "f", " ", "f", "u", "n", "n", "e", "l">>, cat |-> "Funnel Stage",
        mapped_value |-> <<"B", "O", "F", "U">>, confidence |-> 9] >>

\* normalize_filters: None gives [], a list stays, a string gives [string] or []
NormalizeFiltersEnhanced(filters) ==
    [c \in DOMAIN filters |->
        IF filters[c].t = "list" THEN SeqRange(filters[c].l)
        ELSE IF filters[c].t = "str" /\ filters[c].l # <<>> THEN {filters[c].l}
        ELSE {}]

\* process.extractOne(entity, values, scorer=fuzz.ratio): the first value of the
\* highest ratio
BestMatch(entity, values) ==
    values[CHOOSE i \in 1..Len(values) :
            /\ \A j \in 1..Len(values) : ~RatioBetter(entity, values[j], values[i])
            /\ \A j \in 1..(i - 1) : RatioBetter(entity, values[i], values[j])]

\* enhanced_post_process_results, step 2: a quoted entity within ratio 85 of a value
RECURSIVE MapQuotedFuzzy(_, _, _)
MapQuotedFuzzy(filters, entities, categories) ==
    IF entities = <<>> THEN filters
    ELSE LET hit == {c \in DOMAIN categories :
                        /\ categories[c] # <<>>
                        /\ RatioGt(Head(entities), BestMatch(Head(entities), categories[c]),
                                   85, 1)}
         IN MapQuotedFuzzy(
                [c \in DOMAIN filters \cup hit |->
                    IF c \in hit
                    THEN ValuesOf(filters, c) \cup {BestMatch(Head(entities), categories[c])}
                    ELSE filters[c]],
                Tail(entities), categories)

\* apply_enhanced_synonyms_map, lines 563-568: the entries of the map that pass, at
\* threshold 80; the three conditions are pure, and the cheapest is read first
EnhancedSynonymHits(query_text, categories, synonyms) ==
    SelectSeq(synonyms,
              LAMBDA syn :
                /\ syn.mapped_value \in OptionsOf(categories, syn.cat)
                /\ syn.confidence >= 7
                /\ PartialRatioGe(Lower(syn.phrase), Lower(query_text), 80, 1))

\* lines 569-570, for the entries that pass
RECURSIVE AddSynonyms(_, _)
AddSynonyms(filters, hits) ==
    IF hits = <<>> THEN filters
    ELSE AddSynonyms(AddValue(filters, Head(hits).cat, Head(hits).mapped_value), Tail(hits))

\* enhanced_post_process_results, hits being the entries of synonyms_map that the
\* query text passes and temporal_info what parse_temporal_constraints returned: the
\* classification, the filters and the temporal_info of the QueryResult
EnhancedPostProcessWith(parsed_data, categories, hits, temporal_info) ==
    LET filters == NormalizeFiltersEnhanced(parsed_data.filters)
        quoted == MapQuotedFuzzy(filters, parsed_data.quoted_entities, categories)
    IN [classification |-> parsed_data.classification,
        filters |-> AddSynonyms(quoted, hits),
        temporal_info |-> temporal_info]

----------------------------------------------------------------------------
(* The callers of the parsers *)

\* the words and phrases the queries are made of
Pieces ==
    { <<"S", "h", "o", "w">>, <<"L", "e", "a", "s", "t">>,
      <<"W", "h", "y_acute", ",">>, <<"a", "l", "m", "o", "s", "t">>,
      <<"T", "O", "F", "U">>, <<"B", "l", "o", "g", "s">>,
      <<"n", "o", "n", " ", "e", "n", "g", "l", "i", "s", "h">>,
      <<"t", "o">> }

MaxPieces == 3

Queries == {JoinWords(p) : p \in UNION {[1..n -> Pieces] : n \in 1..MaxPieces}}

\* what load_tenant_categories / extract_categorical_fields hand the parsers
ParseVocabularies ==
    { ("Funnel Stage" :> << <<"T", "O", "F", "U">>, <<"M", "O", "F", "U">> >>)
        @@ ("Page Type" :> << <<"B", "l", "o", "g">> >>)
        @@ ("Language" :> << <<"E", "n", "g", "l", "i", "s", "h">>,
                             <<"G", "e", "r", "m", "a", "n">> >>),
      ("Funnel Stage" :> << <<"T", "O", "F", "U">> >>)
        @@ ("Language" :> << <<"E", "n", "g", "l", "i", "s", "h">>,
                             <<"F", "r", "e", "n", "c", "h">> >>) }

\* the answers of the model to extract_filters_from_llm: none, {}, and objects under
\* the keys the prompt names
LlmFallbackResponses ==
    { [ok |-> FALSE, json |-> EmptyDict],
      [ok |-> TRUE, json |-> EmptyDict],
      [ok |-> TRUE, json |-> ("funnel_stage" :> JList(<< <<"T", "O", "F", "U">> >>))],
      [ok |-> TRUE, json |-> ("content_type" :> JStr(<<"B", "l", "o", "g">>))] }

\* the classification enum of both tools schemas
Classifications == {"structured", "advisory", "analytical", "exploratory"}

\* the quoted_entities of a tool call
QuotedEntities ==
    { <<>>, << <<"B", "l", "o", "g">> >>, << <<"B", "l", "o", "g", "s">> >>,
      << <<"b", "l", "o", "g">> >> }

\* the filters of a tool call under the schema of build_tools_schema, whose items
\* are an enum of the category's values
WorkingLlmFilters(categories) ==
    {EmptyDict, ("Funnel Stage" :> JNone)}
    \cup {("Funnel Stage" :> JList(<<v>>)) : v \in SeqRange(categories["Funnel Stage"])}

\* the filters of a tool call under the schema of build_enhanced_tools_schema, whose
\* items are any strings
EnhancedLlmFilters ==
    { EmptyDict, ("Funnel Stage" :> JNone), ("Funnel Stage" :> JList(<< <<"T", "O", "F", "U">> >>)),
      ("Funnel Stage" :> JList(<< <<"B", "O", "F", "U">> >>)), ("Language" :> JStr(<<"e", "n", "g", "l", "i", "s", "h">>)) }

\* no call of the model in this parse
NoLlmCall ==
    [called |-> FALSE, use_llm |-> FALSE, found |-> EmptyDict, failed |-> FALSE,
     answer |-> EmptyDict]

\* a call of the model: use_llm is the caller's opt-in (FALSE where the parser has no
\* such parameter), found the filters matched before the call, failed whether the
\* call, the extraction of its content or the JSON decoding raised, and answer the
\* decoded object: the filters of extract_filters_from_llm, the filters and the
\* quoted entities of a tool call
LlmCall(use_llm, found, failed, answer) ==
    [called |-> TRUE, use_llm |-> use_llm, found |-> found, failed |-> failed,
     answer |-> IF failed THEN EmptyDict ELSE answer]

\* how a forced tool call may fail: client.chat.completions.create raises, the message
\* has no tool_calls (None[0]), the arguments are not JSON
ToolCallFailures == {"APIError", "TypeError", "JSONDecodeError"}

ParseIdle ==
    /\ userQuery = <<>>
    /\ vocab = EmptyDict
    /\ parseVia = "none"
    /\ parseOut = <<>>
    /\ llm = NoLlmCall
    /\ parseErr = <<>>

\* a query arrives for a tenant
Submit ==
    /\ parseVia = "none"
    /\ \E q \in Queries, v \in ParseVocabularies :
        /\ userQuery' = q
        /\ vocab' = v
    /\ parseVia' = "submitted"
    /\ UNCHANGED <<parseOut, llm, parseErr>>
    /\ UNCHANGED nonParseVars

\* category_extracter.parse_query(user_query, tenant_id, use_llm)
RuleParse(nlp) ==
    /\ parseVia = "submitted"
    /\ parseVia' = "parse_query"
    /\ \E found \in {RuleFilters(userQuery, vocab, nlp)} :
          \E use_llm \in BOOLEAN, response \in LlmFallbackResponses :
            /\ parseOut' = <<RuleParseResult(userQuery, found, use_llm, response)>>
            /\ llm' = IF use_llm /\ DOMAIN found = {}
                      THEN LlmCall(use_llm, found, ~response.ok, response.json)
                      ELSE NoLlmCall
    /\ UNCHANGED <<userQuery, vocab, parseErr>>
    /\ UNCHANGED nonParseVars

\* classify_query(user_query, filters_found) called with any filters
Classify(filters_found) ==
    /\ parseVia = "submitted"
    /\ parseVia' = "classify_query"
    /\ parseOut' = <<[classification |-> ClassifyQuery(userQuery, filters_found),
                      filters |-> filters_found]>>
    /\ UNCHANGED <<userQuery, vocab, llm, parseErr>>
    /\ UNCHANGED nonParseVars

\* query_parser_working.parse_query_with_tools(query_text)
WorkingParse(classification, filters, quoted_entities) ==
    /\ parseVia = "submitted"
    /\ filters \in WorkingLlmFilters(vocab)
    /\ \/ /\ parseVia' = "parse_query_with_tools"
          /\ parseOut' = <<PostProcessResults(
                              [classification |-> classification, filters |-> filters,
                               quoted_entities |-> quoted_entities, query_text |-> userQuery],
                              vocab)>>
          /\ llm' = LlmCall(FALSE, EmptyDict, FALSE,
                          [filters |-> filters, quoted_entities |-> quoted_entities])
          /\ parseErr' = <<>>
       \/ \E failure \in ToolCallFailures :
          /\ parseVia' = "raised"
          /\ parseOut' = <<>>
          /\ llm' = LlmCall(FALSE, EmptyDict, TRUE, EmptyDict)
          /\ parseErr' = <<[parser |-> "parse_query_with_tools", exception |-> failure]>>
    /\ UNCHANGED <<userQuery, vocab>>
    /\ UNCHANGED nonParseVars

\* query_parser.parse_query_with_enhanced_tools(query_text)
EnhancedParse ==
    /\ parseVia = "submitted"
    /\ \/ \E hits \in {EnhancedSynonymHits(userQuery, vocab, SynonymsMapEnhanced)},
             temporal \in {ParseTemporalConstraints(userQuery)} :
          \E classification \in Classifications, filters \in EnhancedLlmFilters,
             quoted_entities \in QuotedEntities :
            /\ llm' = LlmCall(FALSE, EmptyDict, FALSE,
                          [filters |-> filters, quoted_entities |-> quoted_entities])
            /\ IF temporal.raised = "none"
               THEN /\ parseVia' = "parse_query_with_enhanced_tools"
                    /\ parseOut' = <<EnhancedPostProcessWith(
                                        [classification |-> classification,
                                         filters |-> filters,
                                         quoted_entities |-> quoted_entities],
                                        vocab, hits, temporal.info)>>
                    /\ parseErr' = <<>>
               ELSE /\ parseVia' = "raised"
                    /\ parseOut' = <<>>
                    /\ parseErr' = <<[parser |-> "parse_query_with_enhanced_tools",
                                      exception |-> temporal.raised]>>
       \/ \E failure \in ToolCallFailures :
          /\ parseVia' = "raised"
          /\ parseOut' = <<>>
          /\ llm' = LlmCall(FALSE, EmptyDict, TRUE, EmptyDict)
          /\ parseErr' = <<[parser |-> "parse_query_with_enhanced_tools",
                            exception |-> failure]>>
    /\ UNCHANGED <<userQuery, vocab>>
    /\ UNCHANGED nonParseVars

\* the answer is handed on; the next query starts afresh
ParseFinish ==
    /\ parseVia \notin {"none", "submitted"}
    /\ userQuery' = <<>>
    /\ vocab' = EmptyDict
    /\ parseVia' = "none"
    /\ parseOut' = <<>>
    /\ llm' = NoLlmCall
    /\ parseErr' = <<>>
    /\ UNCHANGED nonParseVars

----------------------------------------------------------------------------
(* The callers of the TemporalParser *)

\* the words and time expressions the texts are made of
TemporalPieces ==
    { <<"s", "h", "o", "w">>,
      <<"b", "e", "f", "o", "r", "e", " ", "2", "0", "2", "4">>,
      <<"a", "f", "t", "e", "r", " ", "2", "0", "2", "3">>,
      <<"s", "i", "n", "c", "e", " ", "2", "0", "2", "2", "-", "0", "1", "-", "1", "5">>,
      <<"l", "a", "s", "t", " ", "w", "e", "e", "k">>,
      <<"b", "e", "t", "w", "e", "e", "n", " ", "2", "0", "2", "3", " ", "a", "n", "d", " ", "2", "0", "2", "4">>,
      <<"b", "e", "t", "w", "e", "e", "n", " ", "f", "e", "b", "r", "u", "a", "r", "y", " ", "3", "0", ",", " ", "2", "0", "2", "4", " ", "a", "n", "d", " ", "2", "0", "2", "5">>,
      <<"b", "e", "f", "o", "r", "e", " ", "3", "1", "-", "F", "e", "b", "r", "u", "a", "r", "y", "-", "2", "0", "2", "4">>,
      <<"f", "r", "o", "m", " ", "0", "2", "/", "3", "0", "/", "2", "0", "2", "4", " ", "t", "o", " ", "2", "0", "2", "5">>,
      <<"t", "o", "d", "a", "y">>,
      <<"l", "a", "s", "t", " ", "3", " ", "m", "o", "n", "t", "h", "s">>,
      <<"1", "2", "/", "2", "5", "/", "2", "0", "2", "4", " ", "t", "o", " ", "1", "2", "/", "3", "1", "/", "2", "0", "2", "4">> }

MaxTemporalPieces == 2

TemporalTexts ==
    {JoinWords(p) : p \in UNION {[1..n -> TemporalPieces] : n \in 1..MaxTemporalPieces}}

TemporalIdle ==
    /\ temporalText = <<>>
    /\ temporalOut = <<>>

\* a query text arrives
TemporalSubmit ==
    /\ temporalText = <<>>
    /\ \E q \in TemporalTexts : temporalText' = q
    /\ UNCHANGED temporalOut
    /\ UNCHANGED nonTemporalVars

\* TemporalParser.parse_temporal_constraints(query_text)
ExtractTemporal ==
    /\ temporalText # <<>>
    /\ temporalOut = <<>>
    /\ temporalOut' = <<ParseTemporalConstraints(temporalText)>>
    /\ UNCHANGED temporalText
    /\ UNCHANGED nonTemporalVars

\* the result is handed on; the next text starts afresh
TemporalFinish ==
    /\ temporalOut # <<>>
    /\ temporalText' = <<>>
    /\ temporalOut' = <<>>
    /\ UNCHANGED nonTemporalVars

----------------------------------------------------------------------------
(* advisory_handler.py: AdvisoryHandler, called by process_user_query.py *)

\* an entry of tenant_categories: a dict value -> attribute id, a list of values, or
\* something that is neither
IdDict(m) == [t |-> "dict", v |-> m]
ValueList(l) == [t |-> "list", v |-> l]
NotAMap == [t |-> "none", v |-> <<>>]

\* lines 90-101: the category_map used for a category; <<>> when the category is
\* skipped
CategoryMapFor(tenant_categories, category_name) ==
    LET category_map == DictGet(tenant_categories, category_name, IdDict(EmptyDict))
    IN IF category_map.t = "list"
       THEN <<[x \in SeqRange(category_map.v) |-> x]>>
       ELSE IF category_map.t = "dict" THEN <<category_map.v>> ELSE <<>>

\* lines 103-108
MappedValues(values, category_map) ==
    LET known == SelectSeq(values, LAMBDA x : x \in DOMAIN category_map)
    IN [i \in 1..Len(known) |-> category_map[known[i]]]

\* _map_filters_to_category_ids
MapFiltersToCategoryIds(filters, tenant_categories) ==
    LET ids(c) == IF CategoryMapFor(tenant_categories, c) = <<>> THEN <<>>
                  ELSE MappedValues(filters[c], CategoryMapFor(tenant_categories, c)[1])
    IN [c \in {k \in DOMAIN filters : ids(k) # <<>>} |-> ids(c)]

\* lines 123-126, the loop over mapped_filters.items()
RECURSIVE ApplyCategoryFilters(_, _, _)
ApplyCategoryFilters(query, mapped_filters, cats) ==
    IF cats = <<>> THEN query
    ELSE LET ids == mapped_filters[Head(cats)]
             next == IF ids # <<>>
                     THEN DictSet(query, "categoryAttribute",
                                  DictSet(DictGet(query, "categoryAttribute", EmptyDict),
                                          "$in", ids))
                     ELSE query
         IN ApplyCategoryFilters(next, mapped_filters, Tail(cats))

\* lines 129-140
ApplyConstraints(query, constraints) ==
    LET temporal == DictGet(constraints, "temporal", [type |-> "None"])
        created ==
            CASE temporal.type = "after" ->
                    ("createdAt" :> ("$gte" :> temporal.start_date))
              [] temporal.type = "before" ->
                    ("createdAt" :> ("$lte" :> temporal.end_date))
              [] temporal.type = "range" ->
                    ("createdAt" :> (("$gte" :> temporal.start_date)
                                     @@ ("$lte" :> temporal.end_date)))
              [] OTHER -> EmptyDict
        gated == IF "gated" \in DOMAIN constraints
                 THEN ("isMarketingContent" :> constraints["gated"]) ELSE EmptyDict
    IN DictUpdate(DictUpdate(query, created), gated)

\* _build_mongo_query
BuildMongoQuery(mapped_filters, constraints) ==
    ApplyConstraints(ApplyCategoryFilters(EmptyDict, mapped_filters, Keys(mapped_filters)),
                     constraints)

\* _summarize_filters: the fields with values, in order, each with its values
SummarizeFilters(filters) ==
    LET active == SelectSeq(Keys(filters), LAMBDA f : filters[f] # <<>>)
    IN [i \in 1..Len(active) |-> <<active[i], filters[active[i]]>>]

\* generate_advisory, count being what count_documents(query) answers
GenerateAdvisoryResult(parsed_data, tenant_id, tenant_categories, count) ==
    LET filters == DictGet(parsed_data, "filters", EmptyDict)
        constraints == DictGet(parsed_data, "constraints", EmptyDict)
        mapped_filters == MapFiltersToCategoryIds(filters, tenant_categories)
        query == DictSet(BuildMongoQuery(mapped_filters, constraints),
                         "tenant", OidCond(tenant_id))
    IN IF ObjectIdRaises(tenant_id)
       THEN [raised |-> "InvalidId", query |-> EmptyDict, advisory |-> <<>>]
       ELSE [raised |-> "none", query |-> query,
             advisory |->
                <<[follow_up_actions |->
                        CASE count = 0 -> <<"broaden_search", "try_different_filters">>
                          [] count = 1 -> <<"view_details", "find_similar">>
                          [] OTHER -> <<"view_list", "refine_filters", "sort_results">>,
                   count |-> count,
                   filters_applied |-> SummarizeFilters(filters),
                   has_results |-> count > 0]>>]

\* tenant_categories as the handler documents them (value -> attribute id), and as
\* process_user_query.py:60 passes them (lists of values)
AdvisoryTenantCategories ==
    { ("Funnel Stage" :> IdDict(("TOFU" :> "a1") @@ ("MOFU" :> "a2")))
        @@ ("Industry" :> IdDict(("Finance" :> "a3"))),
      ("Funnel Stage" :> ValueList(<<"TOFU", "MOFU">>))
        @@ ("Industry" :> ValueList(<<"Finance">>))
        @@ ("Page Type" :> NotAMap) }

\* the filters of the parsed data: a subset of the categories, each with a list
AdvisoryFilters ==
    {Opt("Funnel Stage", fs) @@ Opt("Industry", ind) @@ Opt("Page Type", pt) :
        fs \in {<<>>, << <<>> >>, << <<"TOFU">> >>, << <<"TOFU", "MOFU">> >>,
                << <<"BOFU">> >>},
        ind \in {<<>>, << <<"Finance">> >>},
        pt \in {<<>>, << <<"Blog">> >>}}

AdvisoryConstraints ==
    {<<>>, <<EmptyDict>>,
     <<("temporal" :> [type |-> "after", start_date |-> "2025-01-01"])>>,
     <<("gated" :> TRUE)>>}

\* the answers of count_documents the advisory text distinguishes
Counts == 0..2

AdvisoryIdle ==
    /\ advisoryData = <<>>
    /\ advisoryOut = <<>>

\* process_user_query.py:28-35: a parsed query and an AdvisoryHandler for a tenant
AdvisorySubmit ==
    /\ advisoryData = <<>>
    /\ \E filters \in AdvisoryFilters, constraints \in AdvisoryConstraints,
          tenant_categories \in AdvisoryTenantCategories, tenant_id \in TenantIds :
            advisoryData' = <<[parsed_data |-> ("filters" :> filters)
                                                @@ Opt("constraints", constraints),
                               tenant_id |-> tenant_id,
                               tenant_categories |-> tenant_categories]>>
    /\ UNCHANGED advisoryOut
    /\ UNCHANGED nonAdvisoryVars

\* process_user_query.py:36: advisory_handler.generate_advisory(parsed_data)
GenerateAdvisory ==
    /\ advisoryData # <<>>
    /\ advisoryOut = <<>>
    /\ \E count \in Counts :
            advisoryOut' = <<GenerateAdvisoryResult(advisoryData[1].parsed_data,
                                                    advisoryData[1].tenant_id,
                                                    advisoryData[1].tenant_categories,
                                                    count)>>
    /\ UNCHANGED advisoryData
    /\ UNCHANGED nonAdvisoryVars

\* the response is returned; the next query starts afresh
AdvisoryFinish ==
    /\ advisoryOut # <<>>
    /\ advisoryData' = <<>>
    /\ advisoryOut' = <<>>
    /\ UNCHANGED nonAdvisoryVars

----------------------------------------------------------------------------
(* normalize_filters on what an extractor may supply *)

\* a slot of the filters object: None, a list, or a single string
RawSlots ==
    {JNone, JList(<<>>), JList(<< <<"T", "O", "F", "U">> >>),
     JList(<< <<"T", "O", "F", "U">>, <<"M", "O", "F", "U">> >>),
     JStr(<<"T", "O", "F", "U">>), JStr(<<>>)}

RawFilters ==
    {Opt("Funnel Stage", fs) @@ Opt("Language", lang) :
        fs \in {<<>>} \cup {<<r>> : r \in RawSlots},
        lang \in {<<>>} \cup {<<r>> : r \in RawSlots}}

NormalizeIdle ==
    /\ rawFilters = <<>>
    /\ normalized = <<>>

\* json.loads(tool_output): the filters of a tool call
NormalizeGiven ==
    /\ rawFilters = <<>>
    /\ \E filters \in RawFilters : rawFilters' = <<filters>>
    /\ UNCHANGED normalized
    /\ UNCHANGED nonNormalizeVars

\* query_parser_working.normalize_filters, as post_process_results calls it at lines
\* 157 and 178
NormalizeWorking ==
    /\ rawFilters # <<>>
    /\ normalized = <<>>
    /\ normalized' = <<[by |-> "query_parser_working",
                        once |-> NormalizeFiltersOr(rawFilters[1]),
                        twice |-> NormalizeFiltersOr(NormalizeFiltersOr(rawFilters[1]))]>>
    /\ UNCHANGED rawFilters
    /\ UNCHANGED nonNormalizeVars

\* try_query_parser.normalize_filters, as enhanced_post_processing calls it at lines
\* 216 and 292
NormalizeTry ==
    /\ rawFilters # <<>>
    /\ normalized = <<>>
    /\ normalized' = <<[by |-> "try_query_parser",
                        once |-> NormalizeFiltersOr(rawFilters[1]),
                        twice |-> NormalizeFiltersOr(NormalizeFiltersOr(rawFilters[1]))]>>
    /\ UNCHANGED rawFilters
    /\ UNCHANGED nonNormalizeVars

\* query_parser.normalize_filters, as enhanced_post_process_results calls it
NormalizeEnhanced ==
    /\ rawFilters # <<>>
    /\ normalized = <<>>
    /\ normalized' = <<[by |-> "query_parser",
                        once |-> NormalizeFiltersWrap(rawFilters[1]),
                        twice |-> NormalizeFiltersWrap(NormalizeFiltersWrap(rawFilters[1]))]>>
    /\ UNCHANGED rawFilters
    /\ UNCHANGED nonNormalizeVars

\* the filters are handed on
NormalizeFinish ==
    /\ normalized # <<>>
    /\ rawFilters' = <<>>
    /\ normalized' = <<>>
    /\ UNCHANGED nonNormalizeVars

----------------------------------------------------------------------------
(* Specifications *)

vars == <<planVars, cacheVars, parseVars, temporalVars, advisoryVars, normalizeVars>>

Init ==
    PlanIdle /\ CacheIdle /\ ParseIdle /\ TemporalIdle /\ AdvisoryIdle /\ NormalizeIdle

PlanNext ==
    \/ ParseQuery
    \/ \E t \in TenantIds : BuildOld(t)
    \/ \E t \in TenantIds : BuildNew(t)
    \/ ExecuteCount
    \/ StructuredSearch
    \/ PlanFinish

PlanSpec == Init /\ [][PlanNext]_vars

\* the builders on parser outputs with absent and empty parts
BuilderNext ==
    \/ GiveParserOutput
    \/ \E t \in TenantIds : BuildOld(t)
    \/ \E t \in TenantIds : BuildNew(t)
    \/ ExecuteCount
    \/ PlanFinish

BuilderSpec == Init /\ [][BuilderNext]_vars

\* the schema service under concurrent callers, the store reachable throughout
CacheNext ==
    \/ \E w \in Workers, t \in TenantIds : ResolveStart(w, t)
    \/ \E w \in Workers, t \in TenantIds : ExtractStart(w, t)
    \/ \E w \in Workers : ExtractBegin(w)
    \/ \E w \in Workers : ExtractCategory(w)
    \/ \E w \in Workers : ExtractMappings(w)
    \/ \E w \in Workers : ExtractPublish(w)
    \/ \E w \in Workers : ResolveReturn(w)
    \/ \E t \in TenantIds : Lookup(t)
    \/ \E t \in TenantIds \cup {"None"} : Clear(t)
    \/ \E w \in Workers, t \in ValidHex : LoadStart(w, t)
    \/ \E w \in Workers : LoadCategories(w)
    \/ \E w \in Workers : LoadFind(w)
    \/ \E w \in Workers : LoadAttribute(w)
    \/ \E w \in Workers : LoadPublish(w)
    \/ \E t \in ValidHex : StoreChange(t)

CacheSpec == Init /\ [][CacheNext]_vars

\* the same with a store that may become unreachable at any moment
OutageNext ==
    \/ CacheNext
    \/ StoreOutage
    \/ StoreRecover

OutageSpec == Init /\ [][OutageNext]_vars

\* the parsers, each answering the queries of a tenant
ParseNext ==
    \/ Submit
    \/ \E nlp \in BOOLEAN : RuleParse(nlp)
    \/ \E filters_found \in {EmptyDict, ("Funnel Stage" :> {}),
                             ("Funnel Stage" :> { <<"T", "O", "F", "U">> })} :
        Classify(filters_found)
    \/ \E c \in Classifications, e \in QuotedEntities,
          f \in UNION {WorkingLlmFilters(v) : v \in ParseVocabularies} :
        WorkingParse(c, f, e)
    \/ EnhancedParse
    \/ ParseFinish

ParseSpec == Init /\ [][ParseNext]_vars

\* the TemporalParser, each text parsed once
TemporalNext ==
    \/ TemporalSubmit
    \/ ExtractTemporal
    \/ TemporalFinish

TemporalSpec == Init /\ [][TemporalNext]_vars

\* the advisory handler, one query at a time
AdvisoryNext ==
    \/ AdvisorySubmit
    \/ GenerateAdvisory
    \/ AdvisoryFinish

AdvisorySpec == Init /\ [][AdvisoryNext]_vars

\* normalize_filters of the three parsers on one filters object
NormalizeNext ==
    \/ NormalizeGiven
    \/ NormalizeWorking
    \/ NormalizeTry
    \/ NormalizeEnhanced
    \/ NormalizeFinish

NormalizeSpec == Init /\ [][NormalizeNext]_vars

----------------------------------------------------------------------------
(* Properties of the plan path *)

IsLookup(stage) == stage.op = "$lookup"

Lookups(p) == SelectSeq(p, IsLookup)

\* a $match on the tenant field alone, equal to ObjectId(tenant_id)
IsTenantScope(stage, tenant_id) ==
    /\ stage.op = "$match"
    /\ DOMAIN stage.cond = {"tenant"}
    /\ stage.cond["tenant"] = OidCond(tenant_id)

\* a $match that constrains the tenant field at all
ConstrainsTenant(stage) ==
    /\ stage.op = "$match"
    /\ "tenant" \in DOMAIN stage.cond

PlanBuilt == planVia # "none" /\ planErr = "none"

\* C1: every plan a builder returns is non-empty and starts with a match on
\* tenant == the given tenant id, and every pipeline handed to the document store
\* starts with a match on the tenant.
C1_TenantScopeFirst ==
    /\ PlanBuilt => (pipeline # <<>> /\ IsTenantScope(pipeline[1], planTenant))
    /\ sentVia # "none" => (sent # <<>> /\ ConstrainsTenant(sent[1]))

\* the builders' half of C1, which the code keeps
BuildersTenantScopeFirst ==
    /\ PlanBuilt => (pipeline # <<>> /\ IsTenantScope(pipeline[1], planTenant))
    /\ sentVia = "execute_pipeline_count" =>
            (sent # <<>> /\ IsTenantScope(sent[1], planTenant))

LookupsTenantScoped(p, tenant_id) ==
    \A i \in 1..Len(p) :
        IsLookup(p[i]) =>
            /\ "tenant" \in DOMAIN p[i].match
            /\ p[i].match["tenant"] = OidCond(tenant_id)

\* C4: every $lookup stage of a plan, value-filtered or not, carries in its inner
\* $match the condition tenant == ObjectId(the plan's tenant id).
C4_JoinsTenantScoped ==
    /\ PlanBuilt => LookupsTenantScoped(pipeline, planTenant)
    /\ sentVia = "execute_pipeline_count" => LookupsTenantScoped(sent, planTenant)

ValueFiltered(stage) == IsLookup(stage) /\ "name" \in DOMAIN stage.match

\* C4's case: a plan of try_query_builder with a value-filtered join and one without
C4_Witness ==
    /\ PlanBuilt
    /\ planVia = "try_query_builder"
    /\ \E i \in 1..Len(pipeline) : ValueFiltered(pipeline[i])
    /\ \E i \in 1..Len(pipeline) : IsLookup(pipeline[i]) /\ ~ValueFiltered(pipeline[i])

\* a filter with values whose category the field mapping does not hold
UnmappedFilter(po) ==
    \E c \in DOMAIN po.filters :
        /\ Len(po.filters[c]) > 0
        /\ c \notin DOMAIN FieldMappingTable

\* C9: a plan synthesised from a filter with values whose category is absent from
\* the field mapping ends in the error UnresolvedCategory.
C9_UnmappedFilterRaises ==
    (planVia # "none" /\ planErr # "InvalidId" /\ UnmappedFilter(parsed[1]))
        => planErr = "UnresolvedCategory"

\* the joins of the parser output that the plan's $lookup stages stand for, in order
JoinsOfLookups(po, p) ==
    SelectSeq(po.database_mapping.required_joins,
              LAMBDA j : \E i \in 1..Len(p) : IsLookup(p[i]) /\ p[i].from = j.collection)

\* C10: the $lookup stage of a join is value-filtered exactly when the join has
\* matched values and aggregation is not requested.
C10_ValueFilterIffNotAggregation ==
    PlanBuilt =>
        LET ls == Lookups(pipeline)
            js == JoinsOfLookups(parsed[1], pipeline)
        IN /\ Len(ls) = Len(js)
           /\ \A k \in 1..Len(ls) :
                ValueFiltered(ls[k]) <=>
                    (Len(js[k].values) > 0 /\ ~parsed[1].aggregation_requested)

\* pipeline_builder.py keeps C10
OldValueFilterIffNotAggregation ==
    planVia = "pipeline_builder" => C10_ValueFilterIffNotAggregation

\* the request is for grouped counts: both builders' tests for it pass, and there is
\* a field to group by
GroupingRequested(po) ==
    /\ po.aggregation_requested
    /\ po.operation_type \in {"aggregate", "rank"}
    /\ po.database_mapping.aggregation_fields # <<>>

IsGroupCount(stage) == stage.op = "$group" /\ stage.acc = "count_sum_1"

\* the last stages of p are a group with a count accumulator, a sort descending by
\* count and, exactly when rank holds, a limit of 1
EndsWithGroupSort(p, rank) ==
    LET body == IF rank THEN SubSeq(p, 1, Len(p) - 1) ELSE p
        n == Len(body)
    IN /\ n >= 2
       /\ IsGroupCount(body[n - 1])
       /\ body[n] = SortStage
       /\ rank => p[Len(p)] = LimitStage(1)
       /\ \A i \in 1..n : body[i].op # "$limit"

\* C11: when aggregation or ranking is requested, the plan ends with a group stage
\* with a count accumulator, then a sort stage descending by count, and a limit of 1
\* follows if and only if the request is a rank request.
C11_AggregationSuffix ==
    (PlanBuilt /\ GroupingRequested(parsed[1]))
        => EndsWithGroupSort(pipeline, parsed[1].operation_type = "rank")

HasOp(p, ops) == \E i \in 1..Len(p) : p[i].op \in ops

\* C12: for a pure count request the plan has exactly one count stage, as its last
\* stage, and no group, sort or limit stage, whatever the aggregation fields.
C12_PureCount ==
    (PlanBuilt /\ parsed[1].operation_type = "count")
        => /\ pipeline[Len(pipeline)].op = "$count"
           /\ Cardinality({i \in 1..Len(pipeline) : pipeline[i].op = "$count"}) = 1
           /\ ~HasOp(pipeline, {"$group", "$sort", "$limit"})

\* the filter categories with values whose field mapping requires a join
JoinRequiredFilters(po) ==
    {c \in DOMAIN po.filters :
        /\ Len(po.filters[c]) > 0
        /\ c \in DOMAIN FieldMappingTable
        /\ FieldMappingTable[c].requires_join}

\* C20: for every filter category whose field mapping requires a join the plan has a
\* join stage on the referenced collection, and every join stage is immediately
\* followed by a flattening stage of its output that drops documents with no match.
C20_JoinPerRequiredFilter ==
    PlanBuilt =>
        /\ \A c \in JoinRequiredFilters(parsed[1]) :
                \E i \in 1..Len(pipeline) :
                    /\ IsLookup(pipeline[i])
                    /\ pipeline[i].from = FieldMappingTable[c].collection
        /\ \A i \in 1..Len(pipeline) :
                IsLookup(pipeline[i]) =>
                    /\ i < Len(pipeline)
                    /\ pipeline[i + 1] = UnwindStage("$" \o pipeline[i].as)

\* the encoding of a field's matched values: equality for one, any-of for several
DirectCondition(values) == IF Len(values) = 1 THEN EqCond(values[1]) ELSE InCond(values)

DirectConditionsEncoded(stage) ==
    \A f \in DOMAIN stage.cond :
        /\ Len(stage.cond[f].vals) >= 1
        /\ stage.cond[f] = DirectCondition(stage.cond[f].vals)

\* C21: in the direct-field filter stage a field with exactly one matched value is an
\* equality condition on that value and a field with two or more values an any-of
\* condition over the list; a field with no value has no condition.
C21_SingleValueIsEquality ==
    /\ PlanBuilt =>
            \A i \in 2..Len(pipeline) :
                pipeline[i].op = "$match" => DirectConditionsEncoded(pipeline[i])
    /\ sentVia = "structured_search" => DirectConditionsEncoded(sent[1])

\* nothing in the parser output asks for a stage beyond the tenant scope
NothingToBuild(po) ==
    /\ po.database_mapping.required_joins = <<>>
    /\ \A f \in DOMAIN po.database_mapping.direct_fields :
            po.database_mapping.direct_fields[f] = <<>>
    /\ \A c \in DOMAIN po.filters : po.filters[c] = <<>>
    /\ po.database_mapping.aggregation_fields = <<>>
    /\ ~po.aggregation_requested
    /\ po.operation_type \in {"None", "list"}

\* C22: absent or empty inputs to plan synthesis raise no error and add no stage: with
\* nothing to build the plan is the tenant scope alone, and no plan has a filter stage
\* with an empty condition.
C22_EmptyInputsAddNoStage ==
    (planVia # "none" /\ ~ObjectIdRaises(planTenant)) =>
        /\ planErr = "none"
        /\ \A i \in 1..Len(pipeline) :
                pipeline[i].op = "$match" => DOMAIN pipeline[i].cond # {}
        /\ NothingToBuild(parsed[1]) => Len(pipeline) = 1

\* the joins build_category_lookups does not skip
WellFormedJoins(po) ==
    SelectSeq(po.database_mapping.required_joins,
              LAMBDA j : j.collection # "" /\ j.field # "")

\* C28: in build_category_lookups a join whose category the tenant's category index
\* resolves to an id has category == that id in its inner match.
C28_CategoryConstrainedWhenResolvable ==
    (PlanBuilt /\ planVia = "try_query_builder") =>
        LET ls == Lookups(pipeline)
            js == WellFormedJoins(parsed[1])
        IN /\ Len(ls) = Len(js)
           /\ \A k \in 1..Len(ls) :
                js[k].category \in DOMAIN CategoryMap(planTenant) =>
                    /\ "category" \in DOMAIN ls[k].match
                    /\ ls[k].match["category"]
                            = OidCond(CategoryMap(planTenant)[js[k].category])

\* C30: a plan has at most one group stage, however many aggregation fields there
\* are; it groups by all of them in one composite key.
C30_AtMostOneGroup ==
    PlanBuilt =>
        /\ Cardinality({i \in 1..Len(pipeline) : pipeline[i].op = "$group"}) <= 1
        /\ \A i \in 1..Len(pipeline) :
                pipeline[i].op = "$group" =>
                    Len(pipeline[i].id.fields)
                        = Len(parsed[1].database_mapping.aggregation_fields)

----------------------------------------------------------------------------
(* The schema caches *)

\* schema is what a build of tenant t yields when it has read every category
\* document and every attribute list, content version v, with no read failing
CompleteSchema(t, schema) ==
    \E v \in StoreVersions(t) :
        LET categories == ExtractTenantCategories(StoreCategoryDocs(t), EmptyDict, v, TRUE)
        IN schema = TenantSchema(t, categories,
                                 DiscoverFieldMappings(t, categories, v, TRUE))

CompleteLoad(t, category_attrs) ==
    \E v \in StoreVersions(t) :
        category_attrs = LoadAttributes(EmptyDict, LoadCategoryNames(t),
                                        StoreAttributeDocs(StoreCategoryDocs(t), v))

\* C5: under any interleaving of concurrent callers, every entry of _schema_cache, of
\* the get_cached_schema memo and of TENANT_CATEGORY_CACHE is a complete build for its
\* tenant; a build in progress is never visible in a cache
C5_AtomicPublish ==
    /\ \A t \in DOMAIN schemaCache : CompleteSchema(t, schemaCache[t])
    /\ \A t \in DOMAIN lruMemo : lruMemo[t] = <<>> \/ CompleteSchema(t, lruMemo[t][1])
    /\ \A t \in DOMAIN tenantCategoryCache : CompleteLoad(t, tenantCategoryCache[t])

\* a caller is part-way through the category loop, some categories built and some still
\* to read, while the cache holds an entry for the same tenant, and another caller is
\* part-way through the attribute loop of load_tenant_categories
C5_Witness ==
    /\ \E w \in Workers :
        /\ worker[w].pc = "categories"
        /\ worker[w].categories # EmptyDict
        /\ worker[w].todo # <<>>
        /\ worker[w].tenant \in DOMAIN schemaCache
    /\ \E w \in Workers :
        /\ worker[w].pc = "load_loop"
        /\ worker[w].schema # <<EmptyDict>>

\* the mapping _determine_category_mapping gives a tenant category
IsCategoryMapping(mapping) ==
    /\ mapping.field_path = "categoryAttribute"
    /\ mapping.reference_collection = "category_attributes"

\* C27: after a successful schema build the field mapping holds a FieldMapping for
\* every category name of the tenant's vocabulary, and it is the category's own
\* mapping, not that of a well-known non-categorical field of the same name.
C27_MappingPerCategory ==
    \A t \in DOMAIN schemaCache :
        \A c \in DOMAIN schemaCache[t].categories :
            /\ c \in DOMAIN schemaCache[t].field_mappings
            /\ schemaCache[t].field_mappings[c].category_name = c
            /\ IsCategoryMapping(schemaCache[t].field_mappings[c])

\* C6: a resolve during whose build a store read failed raises to its caller and leaves
\* no entry for the tenant in the cache
C6_ReadFailureSurfaces ==
    (returned.op = "resolve" /\ returned.readFailed)
        => (returned.err /\ ~returned.cached)

\* C7: a resolve that began after the first resolve of its tenant had returned, with no
\* clear since, returns the vocabulary the first one returned
C7_ResolveIdempotent ==
    (returned.op = "resolve" /\ returned.expect # <<>>)
        => returned.value = returned.expect[1]

\* C8: after clear(t), or clear() for every t, and until a build publishes t again,
\* the cached-schema lookup for t returns no entry
C8_ClearEvicts ==
    \A t \in TenantIds :
        (/\ returned.op = "clear"
         /\ returned.tenant \in {t, "None"}
         /\ t \notin DOMAIN schemaCache)
            => GetCachedSchema(lruMemo, schemaCache, t) = <<>>

----------------------------------------------------------------------------
(* The parsers *)

ParserNames ==
    {"parse_query", "parse_query_with_tools", "parse_query_with_enhanced_tools"}

\* C2: every value in the filters a parser returns is a value of its category in the
\* tenant vocabulary, whichever tier or parser produced it
C2_ClosedVocabulary ==
    parseVia \in ParserNames =>
        \A c \in DOMAIN parseOut[1].filters :
            \A v \in parseOut[1].filters[c] :
                c \in DOMAIN vocab /\ v \in SeqRange(vocab[c])

\* the text, as typed but for case, contains an advisory trigger phrase
HasAdvisoryTrigger(text) ==
    \E i \in 1..Len(ADVISORY_TRIGGERS) : Contains(Lower(text), ADVISORY_TRIGGERS[i])

HasStructuredVerb(text) ==
    \E i \in 1..Len(STRUCTURED_TRIGGERS) : Contains(Lower(text), STRUCTURED_TRIGGERS[i])

\* C3: a query whose text contains an advisory trigger phrase is classified advisory
\* by classify_query, whatever the filters and the verbs
C3_AdvisoryOverride ==
    (parseVia \in {"parse_query", "classify_query"} /\ HasAdvisoryTrigger(userQuery))
        => parseOut[1].classification = "advisory"

\* parse_query found a filter value in a query that has a retrieval verb and an
\* advisory trigger phrase, and classified it advisory
C3_Witness ==
    /\ parseVia = "parse_query"
    /\ HasAdvisoryTrigger(userQuery)
    /\ HasStructuredVerb(userQuery)
    /\ \E c \in DOMAIN parseOut[1].filters : parseOut[1].filters[c] # {}
    /\ parseOut[1].classification = "advisory"

ParseDone == parseVia \notin {"none", "submitted"}

\* C13: when the answer of the model is merged into the filters of parse_query, no
\* category outside the tenant's enumeration and no value outside that category's
\* allowed values is among the merged filters.
C13_FallbackDiscardsUnknown ==
    (parseVia = "parse_query" /\ llm.called /\ ~llm.failed) =>
        \A c \in DOMAIN parseOut[1].filters :
            /\ c \in DOMAIN vocab
            /\ parseOut[1].filters[c] \subseteq SeqRange(vocab[c])

\* C14: a parse calls the model only if the caller opted in and the deterministic
\* matcher had produced no filter; otherwise no call of the model occurs in the parse.
C14_LlmOnlyOnOptIn ==
    (ParseDone /\ llm.called) => (llm.use_llm /\ DOMAIN llm.found = {})

\* C15: a call of the model that raises, or whose answer cannot be decoded, never fails
\* the parse: the parser goes on with no filters from the model and returns a
\* classification and filters.
C15_LlmFailureNeverFails ==
    (ParseDone /\ llm.called /\ llm.failed) =>
        /\ parseErr = <<>>
        /\ parseOut # <<>>
        /\ parseOut[1].classification \in Classifications
        /\ \A c \in DOMAIN parseOut[1].filters : c \in DOMAIN llm.found

\* the normalized text contains one of the phrases
NormalizedContains(text, phrases) ==
    \E i \in 1..Len(phrases) : Contains(CleanText(text), phrases[i])

HasFilterValue(filters) == \E c \in DOMAIN filters : filters[c] # {}

\* C19: the classification is always structured or advisory, and when the normalized
\* text contains no advisory trigger it is structured exactly when some filter
\* category has a non-empty value list and the text contains a retrieval verb.
C19_StructuredIffFilterAndVerb ==
    parseVia \in {"parse_query", "classify_query"} =>
        /\ parseOut[1].classification \in {"structured", "advisory"}
        /\ ~NormalizedContains(userQuery, ADVISORY_TRIGGERS) =>
              (parseOut[1].classification = "structured"
                  <=> (/\ HasFilterValue(parseOut[1].filters)
                       /\ NormalizedContains(userQuery, STRUCTURED_TRIGGERS)))

\* parse_query answered structured for a query with a matched filter value and a
\* retrieval verb, and no advisory trigger
C19_Witness ==
    /\ parseVia = "parse_query"
    /\ ~llm.called
    /\ ~NormalizedContains(userQuery, ADVISORY_TRIGGERS)
    /\ NormalizedContains(userQuery, STRUCTURED_TRIGGERS)
    /\ HasFilterValue(parseOut[1].filters)
    /\ parseOut[1].classification = "structured"

\* the synonym entry passes: its phrase scores the threshold against the lowercased
\* query, its confidence (in tenths) is at least 0.7, and its mapped value is a value
\* of its category in the tenant vocabulary
SynonymPasses(syn, confidence, threshold) ==
    /\ syn.mapped_value \in OptionsOf(vocab, syn.cat)
    /\ confidence >= 7
    /\ PartialRatioGe(Lower(syn.phrase), Lower(userQuery), threshold, 1)

\* out holds for every entry of the map: its mapped value if it passes, and its mapped
\* value beyond what was there before only if an entry with that value passes
SynonymsAddedIff(synonyms, passes(_), before, out) ==
    \A i \in 1..Len(synonyms) :
        LET syn == synonyms[i]
        IN /\ passes(syn) => syn.mapped_value \in ValuesOf(out, syn.cat)
           /\ (/\ syn.mapped_value \in ValuesOf(out, syn.cat)
               /\ syn.mapped_value \notin ValuesOf(before, syn.cat))
                 => \E j \in 1..Len(synonyms) :
                        /\ synonyms[j].cat = syn.cat
                        /\ synonyms[j].mapped_value = syn.mapped_value
                        /\ passes(synonyms[j])

\* C16: a synonym's mapped value is added to the filters if and only if its phrase's
\* partial-match score reaches the threshold, its confidence is at least 0.7 and the
\* mapped value is in the tenant vocabulary for its category; the working parser's
\* entries state no confidence and its threshold is 85.
C16_SynonymAddedIffPasses ==
    /\ parseVia = "parse_query_with_enhanced_tools" =>
            SynonymsAddedIff(
                SynonymsMapEnhanced,
                LAMBDA syn : SynonymPasses(syn, syn.confidence, 80),
                MapQuotedFuzzy(NormalizeFiltersEnhanced(llm.answer.filters),
                               llm.answer.quoted_entities, vocab),
                parseOut[1].filters)
    /\ parseVia = "parse_query_with_tools" =>
            SynonymsAddedIff(
                SynonymsMapWorking,
                LAMBDA syn : SynonymPasses(syn, 10, 85),
                MapQuotedExact(NormalizeFiltersWorking(llm.answer.filters),
                               llm.answer.quoted_entities, vocab),
                parseOut[1].filters)

\* C23: a quoted entity that equals an allowed value of a category ignoring case puts
\* that allowed value into the category's filters, whatever its similarity score and
\* its letter case.
C23_QuotedEqualAccepted ==
    parseVia \in {"parse_query_with_tools", "parse_query_with_enhanced_tools"} =>
        \A entity \in SeqRange(llm.answer.quoted_entities), cat \in DOMAIN vocab :
            \A value \in SeqRange(vocab[cat]) :
                Lower(entity) = Lower(value)
                    => value \in ValuesOf(parseOut[1].filters, cat)

\* the lemmas the fuzzy tier may score: those of 3 characters and more
LongTokens(lemmas) == SelectSeq(lemmas, LAMBDA lemma : Len(lemma) >= 3)

\* a value of a category that the exact tier, the lemma tier, or the fuzzy tier on
\* the tokens of 3 characters and more finds in the query
MatchedWithoutShortTokens(value, options, user_query) ==
    LET query_clean == CleanText(user_query)
    IN \E nlp \in BOOLEAN :
         LET lemmas == LemmatizeWords(query_clean, nlp)
         IN \/ value \in CategoryMatches(options, query_clean, LongTokens(lemmas))
            \/ \E k \in 1..Len(lemmas) : lemmas[k] = Lower(CleanText(value))

\* C24: the fuzzy tier produces no filter value from a query token shorter than 3
\* characters: every value the rule tiers return is matched exactly, by lemma, or
\* fuzzily by a token of 3 characters or more.
C24_ShortTokensNotScored ==
    (parseVia = "parse_query" /\ ~llm.called) =>
        \A cat \in DOMAIN parseOut[1].filters :
            \A value \in parseOut[1].filters[cat] :
                MatchedWithoutShortTokens(value, vocab[cat], userQuery)

\* the text has the phrase "non <value>", letter case aside
NamesAllBut(text, value) ==
    Contains(Lower(text), <<"n", "o", "n", " ">> \o Lower(value))

\* C26: a "non <value>" phrase naming an allowed value of a category yields, for that
\* category, all its other allowed values and not the named one.
C26_NonValueExpands ==
    parseVia \in ParserNames =>
        \A cat \in DOMAIN vocab :
            \A value \in SeqRange(vocab[cat]) :
                NamesAllBut(userQuery, value)
                    => ValuesOf(parseOut[1].filters, cat) = SeqRange(vocab[cat]) \ {value}

----------------------------------------------------------------------------
(* The TemporalParser *)

IsDate(date) == date.k = "date"

\* C17: temporal extraction returns at most one temporal constraint: a range alone, or
\* at most one of a start bound, an end bound and a relative phrase.
C17_AtMostOneTemporal ==
    (temporalOut # <<>> /\ temporalOut[1].raised = "none") =>
        LET info == temporalOut[1].info
        IN IF info.range
           THEN info.relative = "None"
           ELSE Cardinality({f \in {"start_date", "end_date"} : IsDate(info[f])}
                            \cup (IF info.relative = "None" THEN {} ELSE {"relative"})) <= 1

\* C18: no query text makes temporal extraction raise: date text that cannot be parsed
\* into a valid date leaves the result without a constraint for it.
C18_MalformedDateNeverRaises ==
    temporalOut # <<>> => temporalOut[1].raised = "none"

----------------------------------------------------------------------------
(* The advisory handler *)

\* C29: in the count query of AdvisoryHandler every filter category with at least one
\* mapped attribute id constrains the query: the ids of each such category are all in
\* the query, none overwritten by another category's.
C29_EveryCategoryConstrains ==
    (advisoryOut # <<>> /\ advisoryOut[1].raised = "none") =>
        LET mapped == MapFiltersToCategoryIds(advisoryData[1].parsed_data["filters"],
                                              advisoryData[1].tenant_categories)
            query == advisoryOut[1].query
        IN \A c \in DOMAIN mapped :
            /\ "categoryAttribute" \in DOMAIN query
            /\ SeqRange(mapped[c]) \subseteq SeqRange(query["categoryAttribute"]["$in"])

----------------------------------------------------------------------------
(* normalize_filters *)

\* C25: normalize_filters returns a list for every category, whether the extractor
\* supplied a list, a single string or None, and applying it twice gives what
\* applying it once gives.
C25_ValuesAlwaysLists ==
    normalized # <<>> =>
        /\ \A cat \in DOMAIN normalized[1].once : normalized[1].once[cat].t = "list"
        /\ normalized[1].twice = normalized[1].once

====
